---- MODULE Spec2Model ----
(***************************************************************************)
(* Neo4j checkpoint saver for LangGraph.js (saver.ts, base.ts and the      *)
(* Cypher statements of cypher-queries.ts).                                *)
(*                                                                         *)
(* The graph held by the Neo4j database is the state.  Every session.run   *)
(* is one auto-commit transaction and a handler is the sequence of its     *)
(* statements.  A statement is an operator db -> db.  Neo4j isolates       *)
(* transactions at the read-committed level: the MATCH and WHERE clauses   *)
(* that open a statement take no lock, its writes do.  The statements      *)
(* whose writes rest on such a read (CYPHER_CREATE_MAIN_BRANCH,            *)
(* CYPHER_SET_ACTIVE_BRANCH, CYPHER_UPDATE_BRANCH_HEAD) are therefore two  *)
(* operators, ...Match for the rows read and ...Write for the writes made  *)
(* from those rows; run one after the other they are the whole statement,  *)
(* and concurrent callers can commit between the two.  A MERGE on a        *)
(* constrained key and a CREATE under a matched node are single steps.     *)
(* The uniqueness constraints of setup() (saver.ts 156-176) are in force:  *)
(* a CREATE that would duplicate a constrained key throws and its          *)
(* statement changes nothing.                                              *)
(*                                                                         *)
(* Checkpoint ids are strings compared lexicographically by the store;     *)
(* they are modelled as the integers 1..3 with <.                          *)
(***************************************************************************)
EXTENDS Integers, Sequences, FiniteSets, TLC

VARIABLES db, written, submitted, lastOp, procs, ops, saver

vars == <<db, written, submitted, lastOp, procs, ops, saver>>

----------------------------------------------------------------------------
(* Inputs *)

\* thread_id values a caller passes; "" is a config without thread_id
ThreadIds == {"T1", "T2"}

Namespaces == {"", "n"}

CheckpointIds == {1, 2, 3}

\* an absent (undefined) checkpoint id
NoId == 0

Channels == <<"x", "y">>

NoVersion == 0

\* String(channelVersions[channel] ?? "")
VersionString(v) ==
    IF v = 1 THEN "1" ELSE IF v = 2 THEN "2" ELSE ""

\* application values: a JSON string, an object only the serializer can encode,
\* and the JSON-safe mapping {"__serde_type__": t}
Str(s) == [kind |-> "string", v |-> s]

Obj(s) == [kind |-> "instance", v |-> s]

Map(t) == [kind |-> "mapping", v |-> t]

\* channel_values and channel_versions of the checkpoints a caller writes
ChannelData ==
    << [channel_values   |-> [c \in {"x"} |-> Str("a")],
        channel_versions |-> [c \in {"x"} |-> 1]],
       [channel_values   |-> [c \in {"x"} |-> Str("b")],
        channel_versions |-> [c \in {"x"} |-> 1]],
       [channel_values   |-> [c \in {"x", "y"} |-> IF c = "x" THEN Obj("o") ELSE Str("b")],
        channel_versions |-> [c \in {"x"} |-> 2]],
       [channel_values   |-> [c \in {"x"} |-> Map("json")],
        channel_versions |-> [c \in {"x"} |-> 1]],
       [channel_values   |-> [c \in {"x", "y"} |-> IF c = "x" THEN Str("a") ELSE Str("b")],
        channel_versions |-> [c \in {"x", "y"} |-> IF c = "x" THEN 1 ELSE 2]] >>

MetadataValues == <<[source |-> "input", step |-> 0], [source |-> "loop", step |-> 1]>>

\* the (checkpoint data, metadata) pairs put is called with, by checkpoint id
PutInputs(id) ==
    IF id = 1 THEN {<<1, 1>>, <<4, 1>>}
    ELSE IF id = 2 THEN {<<2, 2>>, <<5, 2>>}
    ELSE {<<3, 1>>}

\* the Checkpoint object passed to put
MkCheckpoint(id, d) ==
    [id |-> id,
     channel_values   |-> ChannelData[d].channel_values,
     channel_versions |-> ChannelData[d].channel_versions]

----------------------------------------------------------------------------
(* Serialization (base.ts) *)

RECURSIVE bytesToHex(_)
\* two hex digits per byte, high digit first; a hex string is a sequence of digits
bytesToHex(bytes) ==
    IF bytes = <<>> THEN <<>>
    ELSE <<Head(bytes) \div 16, Head(bytes) % 16>> \o bytesToHex(Tail(bytes))

hexToBytes(hex) ==
    [i \in 1..(Len(hex) \div 2) |-> hex[2 * i - 1] * 16 + hex[2 * i]]

\* the external serializer: an injective byte encoding and its inverse
SerdeTable ==
    [b \in {<<193, id, d>> : id \in CheckpointIds, d \in 1..Len(ChannelData)}
        |-> MkCheckpoint(b[2], b[3])]
    @@ [b \in {<<194, m>> : m \in 1..Len(MetadataValues)} |-> MetadataValues[b[2]]]
    @@ [b \in {<<195, 111>>} |-> Obj("o")]

serdeDumpsTyped(value) ==
    <<"json", CHOOSE b \in DOMAIN SerdeTable : SerdeTable[b] = value>>

serdeLoadsTyped(type, bytes) == SerdeTable[bytes]

\* JSON.stringify of the wrapper object; JSON text is modelled by the JSON value it denotes
SerdeWrapper(type, bytes) ==
    [json |-> "object", __serde_type__ |-> type, __serde_data__ |-> bytesToHex(bytes)]

\* JSON.stringify of a JSON-safe value
JsonStringify(value) ==
    IF value.kind = "string" THEN [json |-> "string", value |-> value.v]
    ELSE [json |-> "object", __serde_type__ |-> value.v]

JsonParse(parsed) ==
    IF parsed.json = "string" THEN Str(parsed.value) ELSE Map(parsed.__serde_type__)

\* typeof parsed === "object" && parsed !== null && "__serde_type__" in parsed
HasMarker(parsed) == parsed.json = "object" /\ "__serde_type__" \in DOMAIN parsed

isSimpleJsonSerializable(value) == value.kind \in {"string", "mapping"}

dumpCheckpoint(checkpoint) ==
    LET td == serdeDumpsTyped(checkpoint)
    IN  <<"serde", SerdeWrapper(td[1], td[2])>>

loadCheckpoint(type, data) ==
    IF HasMarker(data)
    THEN serdeLoadsTyped(data.__serde_type__, hexToBytes(data.__serde_data__))
    ELSE data

dumpMetadata(metadata) ==
    LET td == serdeDumpsTyped(metadata)
    IN  <<"serde", SerdeWrapper(td[1], td[2])>>

loadMetadata(type, data) ==
    IF HasMarker(data)
    THEN serdeLoadsTyped(data.__serde_type__, hexToBytes(data.__serde_data__))
    ELSE data

\* one value of dumpBlobs / dumpWrites: [type, blob]
DumpValue(value) ==
    IF isSimpleJsonSerializable(value)
    THEN [type |-> "json", blob |-> JsonStringify(value)]
    ELSE LET td == serdeDumpsTyped(value)
         IN  [type |-> "serde", blob |-> SerdeWrapper(td[1], td[2])]

\* a TypeError raised while decoding
Thrown == [kind |-> "thrown"]

\* one record of loadBlobs / loadWrites; hexToBytes(undefined) reads hex.length and throws
LoadValue(type, blob) ==
    IF type = "serde" \/ HasMarker(blob)
    THEN IF "__serde_data__" \in DOMAIN blob
         THEN serdeLoadsTyped(blob.__serde_type__, hexToBytes(blob.__serde_data__))
         ELSE Thrown
    ELSE JsonParse(blob)

\* the channels of channelValues in Object.entries order
ValueChannels(channelValues) ==
    SelectSeq(Channels, LAMBDA c : c \in DOMAIN channelValues)

dumpBlobs(channelValues, channelVersions) ==
    LET chans == ValueChannels(channelValues)
    IN  [i \in 1..Len(chans) |->
            LET c == chans[i]
                e == DumpValue(channelValues[c])
            IN  [channel |-> c,
                 version |-> VersionString(IF c \in DOMAIN channelVersions
                                           THEN channelVersions[c] ELSE NoVersion),
                 type    |-> e.type,
                 blob    |-> e.blob]]

----------------------------------------------------------------------------
(* The graph: nodes, and edges that carry no data as sets or bags of pairs *)

Key(t, n) == [thread_id |-> t, checkpoint_ns |-> n]

\* a bag of edges: edge -> number of parallel edges (CREATE never merges)
EmptyBag == [e \in {} |-> 0]

Copies(b, e) == IF e \in DOMAIN b THEN b[e] ELSE 0

\* add n[e] copies of every edge e of E
BagAdd(b, E, n) ==
    LET D == DOMAIN b \cup {e \in E : n[e] > 0}
    IN  [e \in D |-> Copies(b, e) + (IF e \in E THEN n[e] ELSE 0)]

BagKeep(b, D) == [e \in DOMAIN b \cap D |-> b[e]]

\* DELETE of the edges of bag old: those already deleted are skipped
BagRemove(b, old) ==
    LET left(e) == IF e \notin DOMAIN old THEN b[e]
                   ELSE IF b[e] > old[e] THEN b[e] - old[e] ELSE 0
    IN  [e \in {x \in DOMAIN b : left(x) > 0} |-> left(e)]

RECURSIVE BagSize(_)
BagSize(b) ==
    IF DOMAIN b = {} THEN 0
    ELSE LET e == CHOOSE x \in DOMAIN b : TRUE
         IN  b[e] + BagSize(BagKeep(b, DOMAIN b \ {e}))

EmptyDb ==
    [threads       |-> {},
     checkpoints   |-> {},
     previous      |-> {},
     channelStates |-> {},
     hasChannel    |-> EmptyBag,
     writes        |-> EmptyBag,
     branches      |-> {},
     active        |-> EmptyBag,
     head          |-> EmptyBag,
     onBranch      |-> {}]

CheckpointNodes(d, id) == {c \in d.checkpoints : c.checkpoint_id = id}

ThreadCheckpoints(d, key) == {c \in d.checkpoints : c.thread = key}

ThreadBranches(d, key) == {b \in d.branches : b.thread = key}

Parents(d, id) == {e[2] : e \in {x \in d.previous : x[1] = id}}

----------------------------------------------------------------------------
(* Write statements (cypher-queries.ts) *)

\* checkpoint_id_unique: the CREATE of a second node with this id throws
CheckpointIdTaken(d, id) == CheckpointNodes(d, id) # {}

\* faulty variant: MERGE (c:Checkpoint {checkpoint_id}) SET c.type, c.checkpoint,
\* c.metadata, which rewrites a stored node
UpsertCheckpointMerge(d, key, id, type, checkpoint, metadata) ==
    LET old    == CheckpointNodes(d, id)
        owners == IF old = {} THEN {key} ELSE {c.thread : c \in old}
    IN  [d EXCEPT !.threads = @ \cup {key},
                  !.checkpoints = (@ \ old) \cup {[thread        |-> t,
                                                   checkpoint_id |-> id,
                                                   type          |-> type,
                                                   checkpoint    |-> checkpoint,
                                                   metadata      |-> metadata] :
                                                     t \in owners}]

\* the CREATE of a taken checkpoint id throws: the statement changes nothing
UpsertCheckpointSimple(d, key, id, type, checkpoint, metadata) ==
    IF CheckpointIdTaken(d, id) THEN d
    ELSE [d EXCEPT !.threads = @ \cup {key},
                   !.checkpoints = @ \cup {[thread        |-> key,
                                            checkpoint_id |-> id,
                                            type          |-> type,
                                            checkpoint    |-> checkpoint,
                                            metadata      |-> metadata]}]

\* faulty variant: MERGE (p)-[:PREVIOUS]->(c), the edge leaves the older checkpoint
LinkParentCheckpointReversed(d, id, parent) ==
    IF CheckpointNodes(d, id) # {} /\ CheckpointNodes(d, parent) # {}
    THEN [d EXCEPT !.previous = @ \cup {<<parent, id>>}]
    ELSE d

LinkParentCheckpoint(d, id, parent) ==
    IF CheckpointNodes(d, id) # {} /\ CheckpointNodes(d, parent) # {}
    THEN [d EXCEPT !.previous = @ \cup {<<id, parent>>}]
    ELSE d

\* faulty variant: ON MATCH also sets type and blob (the last writer wins)
UpsertChannelStateOverwrite(d, id, blob) ==
    LET found   == {cs \in d.channelStates :
                       cs.channel = blob.channel /\ cs.version = blob.version}
        created == [channel |-> blob.channel, version |-> blob.version,
                    type |-> blob.type, blob |-> blob.blob]
        edges   == {<<id, created>>}
        moved   == {e \in DOMAIN d.hasChannel : e[2] \in found}
        kept    == BagKeep(d.hasChannel, DOMAIN d.hasChannel \ moved)
        relinked == {<<e[1], created>> : e \in moved}
        count(e) == BagSize(BagKeep(d.hasChannel, {m \in moved : m[1] = e[1]}))
    IN  IF CheckpointNodes(d, id) = {} THEN d
        ELSE [d EXCEPT !.channelStates = (@ \ found) \cup {created},
                       !.hasChannel = BagAdd(BagAdd(kept, relinked,
                                                    [e \in relinked |-> count(e)]),
                                             edges, [e \in edges |-> 1])]

\* faulty variant: the HAS_CHANNEL edge is made only ON CREATE of the ChannelState
UpsertChannelStateCreateOnly(d, id, blob) ==
    LET found   == {cs \in d.channelStates :
                       cs.channel = blob.channel /\ cs.version = blob.version}
        created == [channel |-> blob.channel, version |-> blob.version,
                    type |-> blob.type, blob |-> blob.blob]
        edges   == IF found = {} THEN {<<id, created>>} ELSE {}
    IN  IF CheckpointNodes(d, id) = {} THEN d
        ELSE [d EXCEPT !.channelStates = @ \cup {cs \in {created} : found = {}},
                       !.hasChannel = BagAdd(@, edges, [e \in edges |-> 1])]

UpsertChannelState(d, id, blob) ==
    LET found   == {cs \in d.channelStates :
                       cs.channel = blob.channel /\ cs.version = blob.version}
        created == [channel |-> blob.channel, version |-> blob.version,
                    type |-> blob.type, blob |-> blob.blob]
        nodes   == IF found = {} THEN {created} ELSE found
        edges   == {<<id, cs>> : cs \in nodes}
    IN  IF CheckpointNodes(d, id) = {} THEN d
        ELSE [d EXCEPT !.channelStates = @ \cup nodes,
                       !.hasChannel = BagAdd(@, edges, [e \in edges |-> 1])]

\* faulty variant: MERGE of the PendingWrite on (task_id, idx) under the checkpoint
UpsertWriteMerge(d, id, w) ==
    LET node  == [checkpoint_id |-> id, task_id |-> w.taskId, task_path |-> w.taskPath,
                  idx |-> w.idx, channel |-> w.channel, type |-> w.type, blob |-> w.blob]
        found == \E x \in DOMAIN d.writes :
                    x.checkpoint_id = id /\ x.task_id = w.taskId /\ x.idx = w.idx
    IN  IF CheckpointNodes(d, id) = {} \/ found THEN d
        ELSE [d EXCEPT !.writes = BagAdd(@, {node}, [e \in {node} |-> 1])]

UpsertWrite(d, id, w) ==
    LET node == [checkpoint_id |-> id, task_id |-> w.taskId, task_path |-> w.taskPath,
                 idx |-> w.idx, channel |-> w.channel, type |-> w.type, blob |-> w.blob]
    IN  IF CheckpointNodes(d, id) = {} THEN d
        ELSE [d EXCEPT !.writes = BagAdd(@, {node}, [e \in {node} |-> 1])]

\* the record of CYPHER_THREAD_HAS_BRANCHES: none when the thread does not exist
ThreadHasBranches(d, key) ==
    [found |-> key \in d.threads, branch_count |-> Cardinality(ThreadBranches(d, key))]

\* the rows a statement has read: whether its first MATCH found the thread, and
\* the ACTIVE_BRANCH and HEAD edges its patterns matched
NoRows == [matched |-> FALSE, active |-> EmptyBag, head |-> EmptyBag]

\* MATCH (t:Thread ...) WHERE NOT (t)-[:HAS_BRANCH]->()
CreateMainBranchMatch(d, key) ==
    [NoRows EXCEPT !.matched = key \in d.threads /\ ThreadBranches(d, key) = {}]

\* CREATE (b:Branch ...), (t)-[:HAS_BRANCH]->(b), (t)-[:ACTIVE_BRANCH]->(b) for the row read
CreateMainBranchWrite(d, key, rows, branchId) ==
    IF rows.matched /\ key \in d.threads
    THEN [d EXCEPT !.branches = @ \cup {[thread |-> key, branch_id |-> branchId,
                                         name |-> "main", fork_point_id |-> NoId]},
                   !.active = BagAdd(@, {<<key, branchId>>},
                                     [e \in {<<key, branchId>>} |-> 1])]
    ELSE d

CreateMainBranch(d, key, branchId) ==
    CreateMainBranchWrite(d, key, CreateMainBranchMatch(d, key), branchId)

\* branch_id_unique: the CREATE of a second Branch with this id throws
BranchIdTaken(d, branchId) == \E b \in d.branches : b.branch_id = branchId

\* faulty variant: the new branch also gets the thread's ACTIVE_BRANCH edge
CreateBranchAndActivate(d, key, branchId, name, forkPoint) ==
    LET edges == {<<branchId, forkPoint>>}
        act   == {<<key, branchId>>}
    IN  IF key \notin d.threads THEN d
        ELSE [d EXCEPT !.branches = @ \cup {[thread |-> key, branch_id |-> branchId,
                                             name |-> name, fork_point_id |-> forkPoint]},
                       !.active = BagAdd(@, act, [e \in act |-> 1]),
                       !.head = IF CheckpointNodes(d, forkPoint) # {}
                                THEN BagAdd(@, edges, [e \in edges |-> 1])
                                ELSE @]

CreateBranch(d, key, branchId, name, forkPoint) ==
    LET edges == {<<branchId, forkPoint>>}
    IN  IF key \notin d.threads THEN d
        ELSE [d EXCEPT !.branches = @ \cup {[thread |-> key, branch_id |-> branchId,
                                             name |-> name, fork_point_id |-> forkPoint]},
                       !.head = IF CheckpointNodes(d, forkPoint) # {}
                                THEN BagAdd(@, edges, [e \in edges |-> 1])
                                ELSE @]

\* OPTIONAL MATCH yields one row when there is no edge
Rows(n) == IF n = 0 THEN 1 ELSE n

\* MATCH (t:Thread ...) OPTIONAL MATCH (t)-[old:ACTIVE_BRANCH]->()
SetActiveBranchMatch(d, key) ==
    [NoRows EXCEPT !.matched = key \in d.threads,
                   !.active = BagKeep(d.active, {e \in DOMAIN d.active : e[1] = key})]

\* faulty variant: MATCH (b:Branch {branch_id}), a branch of any thread
SetActiveBranchWriteAnyBranch(d, key, rows, branchId) ==
    LET n      == Rows(BagSize(rows.active))
        target == {b \in d.branches : b.branch_id = branchId}
        edges  == {<<key, b.branch_id>> : b \in target}
    IN  IF ~rows.matched \/ key \notin d.threads THEN d
        ELSE [d EXCEPT !.active = BagAdd(BagRemove(@, rows.active), edges,
                                         [e \in edges |-> n])]

\* DELETE old WITH t MATCH (t)-[:HAS_BRANCH]->(b:Branch {branch_id}) CREATE ..., per row read
SetActiveBranchWrite(d, key, rows, branchId) ==
    LET n      == Rows(BagSize(rows.active))
        target == {b \in ThreadBranches(d, key) : b.branch_id = branchId}
        edges  == {<<key, b.branch_id>> : b \in target}
    IN  IF ~rows.matched \/ key \notin d.threads THEN d
        ELSE [d EXCEPT !.active = BagAdd(BagRemove(@, rows.active), edges,
                                         [e \in edges |-> n])]

SetActiveBranch(d, key, branchId) ==
    SetActiveBranchWrite(d, key, SetActiveBranchMatch(d, key), branchId)

\* faulty variant: matches (t)-[:HAS_BRANCH]->(b), every branch of the thread
UpdateEveryBranchHeadMatch(d, key) ==
    LET bs == {b.branch_id : b \in ThreadBranches(d, key)}
    IN  [NoRows EXCEPT !.matched = key \in d.threads,
                       !.active = [e \in {<<key, b>> : b \in bs} |-> 1],
                       !.head = BagKeep(d.head, {e \in DOMAIN d.head : e[1] \in bs})]

\* MATCH (t:Thread ...)-[:ACTIVE_BRANCH]->(b:Branch) OPTIONAL MATCH (b)-[old:HEAD]->()
UpdateBranchHeadMatch(d, key) ==
    LET act == {e \in DOMAIN d.active : e[1] = key}
    IN  [NoRows EXCEPT !.matched = key \in d.threads,
                       !.active = BagKeep(d.active, act),
                       !.head = BagKeep(d.head, {e \in DOMAIN d.head :
                                                    e[1] \in {a[2] : a \in act}})]

\* a branch read by the statement was deleted before its writes: CREATE fails
UpdateBranchHeadFails(d, rows, id) ==
    /\ CheckpointNodes(d, id) # {}
    /\ \E a \in DOMAIN rows.active : ~BranchIdTaken(d, a[2])

\* DELETE old WITH b MATCH (c:Checkpoint {checkpoint_id}) CREATE (b)-[:HEAD]->(c)
\* MERGE (c)-[:ON_BRANCH]->(b), per row read
UpdateBranchHeadWrite(d, key, rows, id) ==
    LET bs       == {a[2] : a \in DOMAIN rows.active}
        heads(b) == BagSize(BagKeep(rows.head, {e \in DOMAIN rows.head : e[1] = b}))
        edges    == IF CheckpointNodes(d, id) = {} THEN {} ELSE {<<b, id>> : b \in bs}
    IN  IF ~rows.matched \/ UpdateBranchHeadFails(d, rows, id) THEN d
        ELSE [d EXCEPT !.head = BagAdd(BagRemove(@, rows.head), edges,
                                  [e \in edges |->
                                      rows.active[<<key, e[1]>>] * Rows(heads(e[1]))]),
                       !.onBranch = @ \cup {<<e[2], e[1]>> : e \in edges}]

UpdateBranchHead(d, key, id) ==
    UpdateBranchHeadWrite(d, key, UpdateBranchHeadMatch(d, key), id)

\* faulty variant: matches the thread of the default namespace only
DeleteThreadOneNamespace(d, threadId) ==
    LET ts  == {t \in d.threads : t.thread_id = threadId /\ t.checkpoint_ns = ""}
        cs  == {c \in d.checkpoints : c.thread \in ts}
        ids == {c.checkpoint_id : c \in cs}
        bs  == {b \in d.branches : b.thread \in ts}
        bids == {b.branch_id : b \in bs}
    IN  [d EXCEPT
            !.threads     = @ \ ts,
            !.checkpoints = @ \ cs,
            !.branches    = @ \ bs,
            !.writes      = BagKeep(@, {w \in DOMAIN @ : w.checkpoint_id \notin ids}),
            !.previous    = {e \in @ : e[1] \notin ids /\ e[2] \notin ids},
            !.hasChannel  = BagKeep(@, {e \in DOMAIN @ : e[1] \notin ids}),
            !.active      = BagKeep(@, {e \in DOMAIN @ : e[1] \notin ts /\ e[2] \notin bids}),
            !.head        = BagKeep(@, {e \in DOMAIN @ : e[1] \notin bids /\ e[2] \notin ids}),
            !.onBranch    = {e \in @ : e[1] \notin ids /\ e[2] \notin bids}]

DeleteThreadStmt(d, threadId) ==
    LET ts  == {t \in d.threads : t.thread_id = threadId}
        cs  == {c \in d.checkpoints : c.thread \in ts}
        ids == {c.checkpoint_id : c \in cs}
        bs  == {b \in d.branches : b.thread \in ts}
        bids == {b.branch_id : b \in bs}
    IN  [d EXCEPT
            !.threads     = @ \ ts,
            !.checkpoints = @ \ cs,
            !.branches    = @ \ bs,
            !.writes      = BagKeep(@, {w \in DOMAIN @ : w.checkpoint_id \notin ids}),
            !.previous    = {e \in @ : e[1] \notin ids /\ e[2] \notin ids},
            !.hasChannel  = BagKeep(@, {e \in DOMAIN @ : e[1] \notin ids}),
            !.active      = BagKeep(@, {e \in DOMAIN @ : e[1] \notin ts /\ e[2] \notin bids}),
            !.head        = BagKeep(@, {e \in DOMAIN @ : e[1] \notin bids /\ e[2] \notin ids}),
            !.onBranch    = {e \in @ : e[1] \notin ids /\ e[2] \notin bids}]

DeleteOrphanChannelStates(d) ==
    [d EXCEPT !.channelStates = {cs \in @ : \E e \in DOMAIN d.hasChannel : e[2] = cs}]

\* faulty variant: the checkpoints ON_BRANCH the branch are deleted with it
DeleteBranchWithCheckpoints(d, branchId) ==
    LET ids == {e[1] : e \in {x \in d.onBranch : x[2] = branchId}}
    IN  [d EXCEPT !.branches    = {b \in @ : b.branch_id # branchId},
                  !.checkpoints = {c \in @ : c.checkpoint_id \notin ids},
                  !.previous    = {e \in @ : e[1] \notin ids /\ e[2] \notin ids},
                  !.hasChannel  = BagKeep(@, {e \in DOMAIN @ : e[1] \notin ids}),
                  !.writes      = BagKeep(@, {w \in DOMAIN @ : w.checkpoint_id \notin ids}),
                  !.active      = BagKeep(@, {e \in DOMAIN @ : e[2] # branchId}),
                  !.head        = BagKeep(@, {e \in DOMAIN @ :
                                                 e[1] # branchId /\ e[2] \notin ids}),
                  !.onBranch    = {e \in @ : e[2] # branchId /\ e[1] \notin ids}]

DeleteBranch(d, branchId) ==
    [d EXCEPT !.branches = {b \in @ : b.branch_id # branchId},
              !.active   = BagKeep(@, {e \in DOMAIN @ : e[2] # branchId}),
              !.head     = BagKeep(@, {e \in DOMAIN @ : e[1] # branchId}),
              !.onBranch = {e \in @ : e[2] # branchId}]

----------------------------------------------------------------------------
(* Read statements (cypher-queries.ts): the set of records a statement returns *)

\* the RETURN row of a checkpoint c matched from thread key: one per PREVIOUS
\* parent, or one with a null parent
CheckpointRows(d, key, c) ==
    LET ps == IF Parents(d, c.checkpoint_id) = {} THEN {NoId}
              ELSE Parents(d, c.checkpoint_id)
    IN  {[thread_id            |-> key.thread_id,
          checkpoint_ns        |-> key.checkpoint_ns,
          checkpoint_id        |-> c.checkpoint_id,
          parent_checkpoint_id |-> p,
          type                 |-> c.type,
          checkpoint           |-> c.checkpoint,
          metadata             |-> c.metadata] : p \in ps}

\* faulty variant: MATCH (c:Checkpoint {checkpoint_id: $checkpoint_id}), of any thread
GetCheckpointByIdAnyThread(d, key, id) ==
    UNION {CheckpointRows(d, key, c) : c \in CheckpointNodes(d, id)}

GetCheckpointById(d, key, id) ==
    UNION {CheckpointRows(d, key, c) :
              c \in {x \in ThreadCheckpoints(d, key) : x.checkpoint_id = id}}

\* faulty variant: matches (t)-[:HAS_BRANCH]->(b)-[:HEAD]->(c), active or not
GetAnyBranchHead(d, key) ==
    UNION {CheckpointRows(d, key, c) :
              c \in {x \in d.checkpoints :
                        \E b \in ThreadBranches(d, key), h \in DOMAIN d.head :
                            /\ key \in d.threads
                            /\ h[1] = b.branch_id
                            /\ h[2] = x.checkpoint_id}}

GetActiveBranchHead(d, key) ==
    UNION {CheckpointRows(d, key, c) :
              c \in {x \in d.checkpoints :
                        \E a \in DOMAIN d.active, h \in DOMAIN d.head :
                            /\ key \in d.threads
                            /\ a[1] = key
                            /\ h[1] = a[2]
                            /\ h[2] = x.checkpoint_id}}

\* faulty variant: ORDER BY c.checkpoint_id LIMIT 1, ascending
GetOldestCheckpoint(d, key) ==
    UNION {CheckpointRows(d, key, c) :
              c \in {x \in ThreadCheckpoints(d, key) :
                        \A y \in ThreadCheckpoints(d, key) :
                            x.checkpoint_id <= y.checkpoint_id}}

\* ORDER BY c.checkpoint_id DESC LIMIT 1
GetLatestCheckpoint(d, key) ==
    UNION {CheckpointRows(d, key, c) :
              c \in {x \in ThreadCheckpoints(d, key) :
                        \A y \in ThreadCheckpoints(d, key) :
                            y.checkpoint_id <= x.checkpoint_id}}

\* one copy of node w taken out of a bag
BagLess(b, w) ==
    IF b[w] = 1 THEN BagKeep(b, DOMAIN b \ {w}) ELSE [b EXCEPT ![w] = @ - 1]

RECURSIVE OrderByIdx(_)
\* ORDER BY w.idx: every order of the rows that is ascending in idx
OrderByIdx(b) ==
    IF DOMAIN b = {} THEN {<<>>}
    ELSE UNION {{<<w>> \o rest : rest \in OrderByIdx(BagLess(b, w))} :
                   w \in {x \in DOMAIN b : \A y \in DOMAIN b : x.idx <= y.idx}}

GetWrites(d, id) ==
    OrderByIdx(BagKeep(d.writes, {w \in DOMAIN d.writes : w.checkpoint_id = id}))

\* faulty variant: MATCH (cs:ChannelState) WHERE ..., not through HAS_CHANNEL
GetChannelStatesUnscoped(d, id, channels, versions) ==
    {cs \in d.channelStates :
        /\ CheckpointNodes(d, id) # {}
        /\ cs.channel \in channels
        /\ cs.version \in versions}

\* the rows of CYPHER_GET_CHANNEL_STATES: channel and version are tested apart
GetChannelStates(d, id, channels, versions) ==
    {e[2] : e \in {x \in DOMAIN d.hasChannel :
                      /\ x[1] = id
                      /\ x[2].channel \in channels
                      /\ x[2].version \in versions}}

----------------------------------------------------------------------------
(* base.ts: config parsing and tuples *)

NoThread == ""

Config(t, n, id) == [thread_id |-> t, checkpoint_ns |-> n, checkpoint_id |-> id]

\* throws (ok = FALSE) when thread_id is missing
parseConfig(config) ==
    [ok           |-> config.thread_id # NoThread,
     threadId     |-> config.thread_id,
     checkpointNs |-> config.checkpoint_ns,
     checkpointId |-> config.checkpoint_id]

loadWrites(writeRecords) ==
    [i \in 1..Len(writeRecords) |->
        <<writeRecords[i].task_id, writeRecords[i].channel,
          LoadValue(writeRecords[i].type, writeRecords[i].blob)>>]

loadBlobs(blobRecords) ==
    [c \in {r.channel : r \in blobRecords} |->
        {LoadValue(r.type, r.blob) : r \in {x \in blobRecords : x.channel = c}}]

dumpWrites(writes, taskId) ==
    [i \in 1..Len(writes) |->
        LET e == DumpValue(writes[i][2])
        IN  [taskId |-> taskId, taskPath |-> "", idx |-> i - 1,
             channel |-> writes[i][1], type |-> e.type, blob |-> e.blob]]

\* parentConfig is <<>> when the record has no parent
makeCheckpointTuple(rec, channelValues, pendingWrites) ==
    [status        |-> "found",
     config        |-> Config(rec.thread_id, rec.checkpoint_ns, rec.checkpoint_id),
     checkpoint    |-> loadCheckpoint(rec.type, rec.checkpoint),
     metadata      |-> loadMetadata(rec.type, rec.metadata),
     parentConfig  |-> IF rec.parent_checkpoint_id # NoId
                       THEN <<Config(rec.thread_id, rec.checkpoint_ns,
                                     rec.parent_checkpoint_id)>>
                       ELSE <<>>,
     pendingWrites |-> pendingWrites]

Absent == [status |-> "absent"]

Threw == [status |-> "error"]

----------------------------------------------------------------------------
(* saver.ts: reads.  A read returns one of a set of results: records[0] is any
   row of the statement, and rows that tie in an ORDER BY come in any order. *)

\* saver.ts 350-377: the channel values getTuple loads for a record
ChannelValuesOf(d, rec) ==
    LET versions == loadCheckpoint(rec.type, rec.checkpoint).channel_versions
    IN  IF DOMAIN versions = {} THEN <<>>
        ELSE loadBlobs(GetChannelStates(d, rec.checkpoint_id, DOMAIN versions,
                                        {VersionString(versions[c]) : c \in DOMAIN versions}))

\* loadBlobs or loadWrites rejects: one of the decoded values is a thrown error
LoadThrows(values) == Thrown \in values

\* saver.ts 319-337: the records[0] candidates of getTuple
GetTupleRecords(d, pc) ==
    LET key  == Key(pc.threadId, pc.checkpointNs)
        head == GetActiveBranchHead(d, key)
    IN  IF pc.checkpointId # NoId THEN GetCheckpointById(d, key, pc.checkpointId)
        ELSE IF head = {} THEN GetLatestCheckpoint(d, key)
        ELSE head

getTuple(d, config) ==
    LET pc   == parseConfig(config)
        recs == GetTupleRecords(d, pc)
        blobsThrow(r) ==
            LET cv == ChannelValuesOf(d, r)
            IN  LoadThrows(UNION {cv[c] : c \in DOMAIN cv})
        tuple(r, ws) ==
            IF blobsThrow(r) \/ LoadThrows({loadWrites(ws)[i][3] : i \in 1..Len(ws)})
            THEN Threw
            ELSE makeCheckpointTuple(r, ChannelValuesOf(d, r), loadWrites(ws))
    IN  IF ~pc.ok THEN {Threw}
        ELSE IF recs = {} THEN {Absent}
        ELSE UNION {{tuple(r, ws) : ws \in GetWrites(d, r.checkpoint_id)} : r \in recs}

NoLimit == -1

DefaultLimit == 100

Max(S) == CHOOSE x \in S : \A y \in S : y <= x

RECURSIVE SortDesc(_)
SortDesc(S) == IF S = {} THEN <<>> ELSE <<Max(S)>> \o SortDesc(S \ {Max(S)})

Take(seq, n) == SubSeq(seq, 1, IF n < Len(seq) THEN n ELSE Len(seq))

RECURSIVE Orderings(_)
Orderings(S) ==
    IF S = {} THEN {<<>>}
    ELSE UNION {{<<x>> \o rest : rest \in Orderings(S \ {x})} : x \in S}

RECURSIVE ListRows(_, _, _)
\* the rows of CYPHER_LIST_CHECKPOINTS for the checkpoints kept by ORDER BY ... LIMIT,
\* in that order: one per PREVIOUS parent of each
ListRows(d, key, ids) ==
    IF ids = <<>> THEN {<<>>}
    ELSE UNION {{rows \o rest : rest \in ListRows(d, key, Tail(ids))} :
                   rows \in Orderings(GetCheckpointById(d, key, Head(ids)))}

\* faulty variant: c.checkpoint_id <= $before_id
ListCheckpointIdsInclusive(d, key, beforeId, lim) ==
    Take(SortDesc({c.checkpoint_id : c \in {x \in ThreadCheckpoints(d, key) :
                      beforeId = NoId \/ x.checkpoint_id <= beforeId}}), lim)

\* MATCH ... WHERE ... WITH t, c ORDER BY c.checkpoint_id DESC LIMIT $limit
ListCheckpointIds(d, key, beforeId, lim) ==
    Take(SortDesc({c.checkpoint_id : c \in {x \in ThreadCheckpoints(d, key) :
                      beforeId = NoId \/ x.checkpoint_id < beforeId}}), lim)

\* before is <<>> or <<config>>; limit is NoLimit or a number
list(d, config, before, limit) ==
    LET pc       == parseConfig(config)
        key      == Key(pc.threadId, pc.checkpointNs)
        bc       == parseConfig(before[1])
        beforeId == IF before = <<>> THEN NoId ELSE bc.checkpointId
        lim      == IF limit = NoLimit THEN DefaultLimit ELSE limit
    IN  IF ~pc.ok \/ (before # <<>> /\ ~bc.ok) THEN {<<Threw>>}
        ELSE {[i \in 1..Len(rows) |-> makeCheckpointTuple(rows[i], <<>>, <<>>)] :
                 rows \in ListRows(d, key, ListCheckpointIds(d, key, beforeId, lim))}

----------------------------------------------------------------------------
(* saver.ts: put, statement by statement *)

UuidPool == <<"u1", "u2", "u3">>

BranchUuids == {UuidPool[i] : i \in DOMAIN UuidPool}

\* crypto.randomUUID(): an id no Branch has (the first free one of the pool)
randomUUID(d) ==
    UuidPool[CHOOSE i \in DOMAIN UuidPool :
                /\ ~BranchIdTaken(d, UuidPool[i])
                /\ \A j \in 1..(i - 1) : BranchIdTaken(d, UuidPool[j])]

\* the local state of a put that has parsed its config and opened its session
PutStart(config, id, input) ==
    [threadId |-> config.thread_id, checkpointNs |-> config.checkpoint_ns,
     parent |-> config.checkpoint_id, id |-> id, input |-> input, pc |-> "checkpoint", i |-> 0,
     rows |-> NoRows, branchId |-> ""]

PutBlobs(p) ==
    LET checkpoint == MkCheckpoint(p.id, p.input[1])
    IN  dumpBlobs(checkpoint.channel_values, checkpoint.channel_versions)

\* where put goes after its blob number i (0: before the first)
AfterBlob(p, i) ==
    IF i < Len(PutBlobs(p)) THEN [p EXCEPT !.pc = "channel", !.i = i + 1]
    ELSE [p EXCEPT !.pc = "branches", !.i = 0]

\* one step of put, a session.run or one of the two halves of one: the database
\* and the put after it
PutStep(d, p) ==
    LET key        == Key(p.threadId, p.checkpointNs)
        checkpoint == MkCheckpoint(p.id, p.input[1])
        metadata   == MetadataValues[p.input[2]]
        count      == ThreadHasBranches(d, key)
    IN  CASE p.pc = "checkpoint" ->
               [db |-> UpsertCheckpointSimple(d, key, p.id, dumpCheckpoint(checkpoint)[1],
                                              dumpCheckpoint(checkpoint)[2],
                                              dumpMetadata(metadata)[2]),
                p  |-> IF CheckpointIdTaken(d, p.id) THEN [p EXCEPT !.pc = "failed"]
                       ELSE IF p.parent # NoId THEN [p EXCEPT !.pc = "parent"]
                       ELSE AfterBlob(p, 0)]
          [] p.pc = "parent" ->
               [db |-> LinkParentCheckpoint(d, p.id, p.parent), p |-> AfterBlob(p, 0)]
          [] p.pc = "channel" ->
               [db |-> UpsertChannelState(d, p.id, PutBlobs(p)[p.i]), p |-> AfterBlob(p, p.i)]
          [] p.pc = "branches" ->
               [db |-> d,
                p  |-> IF count.found /\ count.branch_count = 0
                       THEN [p EXCEPT !.pc = "main"] ELSE [p EXCEPT !.pc = "head"]]
          [] p.pc = "main" ->
               [db |-> d,
                p  |-> [p EXCEPT !.pc = "mainWrite", !.rows = CreateMainBranchMatch(d, key)]]
          [] p.pc = "mainWrite" ->
               [db |-> CreateMainBranchWrite(d, key, p.rows, randomUUID(d)),
                p  |-> [p EXCEPT !.pc = "head", !.rows = NoRows]]
          [] p.pc = "head" ->
               [db |-> d,
                p  |-> [p EXCEPT !.pc = "headWrite", !.rows = UpdateBranchHeadMatch(d, key)]]
          [] p.pc = "headWrite" ->
               [db |-> UpdateBranchHeadWrite(d, key, p.rows, p.id),
                p  |-> [p EXCEPT !.pc = IF UpdateBranchHeadFails(d, p.rows, p.id)
                                        THEN "failed" ELSE "done",
                                 !.rows = NoRows]]
          [] OTHER -> [db |-> d, p |-> p]

PutEnded(p) == p.pc \in {"done", "failed"}

\* the statements before which a put may be cut off (session closed, nothing returned)
PutStops == {<<"parent", 0>>, <<"channel", 1>>, <<"channel", 2>>, <<"branches", 0>>,
             <<"main", 0>>, <<"head", 0>>, <<"none", 0>>}

RECURSIVE PutRun(_, _, _)
\* put run from p until it ends or is about to issue the statement `stop`
PutRun(d, p, stop) ==
    IF PutEnded(p) \/ <<p.pc, p.i>> = stop THEN [db |-> d, p |-> p]
    ELSE PutRun(PutStep(d, p).db, PutStep(d, p).p, stop)

\* put run to its end (saver.ts 181-270)
put(d, config, id, input) == PutRun(d, PutStart(config, id, input), <<"none", 0>>)

RECURSIVE RunWrites(_, _, _)
\* saver.ts 286-296: one CYPHER_UPSERT_WRITE per record, in order
RunWrites(d, id, records) ==
    IF records = <<>> THEN d
    ELSE RunWrites(UpsertWrite(d, id, Head(records)), id, Tail(records))

\* putWrites (saver.ts 275-300); throws without thread_id or checkpoint_id
putWrites(d, config, writes, taskId) ==
    IF ~parseConfig(config).ok \/ parseConfig(config).checkpointId = NoId THEN d
    ELSE RunWrites(d, parseConfig(config).checkpointId, dumpWrites(writes, taskId))

\* faulty variant: no check of checkpointId before the session is opened
putWritesCallUnchecked(d, config, writes, taskId) ==
    IF ~parseConfig(config).ok
    THEN [db |-> d, outcome |-> "error", session |-> FALSE]
    ELSE [db |-> RunWrites(d, parseConfig(config).checkpointId, dumpWrites(writes, taskId)),
          outcome |-> "ok", session |-> TRUE]

\* a putWrites call (saver.ts 275-300): the store it leaves, whether it threw, and
\* whether it came to getSession
putWritesCall(d, config, writes, taskId) ==
    IF ~parseConfig(config).ok \/ parseConfig(config).checkpointId = NoId
    THEN [db |-> d, outcome |-> "error", session |-> FALSE]
    ELSE [db |-> putWrites(d, config, writes, taskId), outcome |-> "ok", session |-> TRUE]

\* a put call (saver.ts 181-270): the store it leaves, whether it threw, and whether
\* it came to getSession
putCall(d, config, id, input) ==
    IF ~parseConfig(config).ok
    THEN [db |-> d, outcome |-> "error", session |-> FALSE]
    ELSE [db |-> put(d, config, id, input).db,
          outcome |-> IF put(d, config, id, input).p.pc = "done" THEN "ok" ELSE "error",
          session |-> TRUE]

\* deleteThread (saver.ts 447-455)
deleteThread(d, threadId) == DeleteOrphanChannelStates(DeleteThreadStmt(d, threadId))

\* the rows of CYPHER_LIST_BRANCHES with their multiplicities
ListBranches(d, key) ==
    LET row(b, h) == [branch_id |-> b.branch_id, name |-> b.name,
                      fork_point_id |-> b.fork_point_id,
                      is_active |-> Copies(d.active, <<key, b.branch_id>>) > 0,
                      head_checkpoint_id |-> h]
        heads(b)  == {e \in DOMAIN d.head : e[1] = b.branch_id}
        rows(b)   == IF heads(b) = {} THEN {row(b, NoId)}
                     ELSE {row(b, e[2]) : e \in heads(b)}
        all       == IF key \in d.threads THEN UNION {rows(b) : b \in ThreadBranches(d, key)}
                     ELSE {}
        branch(r) == CHOOSE b \in ThreadBranches(d, key) : b.branch_id = r.branch_id
    IN  [r \in all |->
            Rows(Copies(d.active, <<key, r.branch_id>>))
            * (IF r.head_checkpoint_id = NoId THEN 1
               ELSE d.head[<<r.branch_id, r.head_checkpoint_id>>])]

----------------------------------------------------------------------------
(* The callers: one operation at a time, each handler run to its end *)

MaxOps == 3

ThreadKeys == {Key("T1", ""), Key("T1", "n"), Key("T2", "")}

CallerBranchIds == {"b1"}

BranchIds == CallerBranchIds \cup {"u1", "u2"}

\* the pending writes of one putWrites call, by task
WriteInputs ==
    {<<"t1", <<<<"x", Str("a")>>, <<"x", Obj("o")>>>>>>,
     <<"t1", <<<<"x", Str("c")>>>>>>,
     <<"t2", <<<<"y", Str("b")>>>>>>}

MaxWriteNodes == 3

\* the last operation a caller finished: put and deleteThread are recorded
Op(name, config, id, outcome, retry) ==
    [op |-> name, config |-> config, id |-> id, outcome |-> outcome, retry |-> retry]

NoConfig == Config(NoThread, "", NoId)

NoOp == Op("other", NoConfig, NoId, "ok", FALSE)

\* a call other than put whose session.run rejected
OpFailed == Op("other", NoConfig, NoId, "error", FALSE)

\* new Neo4jSaver(driver) (saver.ts 96-101): the driver is the caller's; driverClosed
\* counts the driver.close() calls the saver has made
Neo4jSaver == [ownsDriver |-> FALSE, driverClosed |-> 0]

\* Neo4jSaver.fromConnString(config) (saver.ts 122-132): the saver makes its driver
fromConnString == [Neo4jSaver EXCEPT !.ownsDriver = TRUE]

\* faulty variant: close() closes whatever driver the saver has
closeAnyDriver(s) == [s EXCEPT !.driverClosed = @ + 1]

\* close() (saver.ts 137-141); this.driver is set by the constructor
close(s) == IF s.ownsDriver THEN [s EXCEPT !.driverClosed = @ + 1] ELSE s

\* the empty store and a saver made on a caller's driver
Init ==
    /\ db = EmptyDb
    /\ written = [id \in {} |-> 0]
    /\ submitted = [k \in {} |-> <<>>]
    /\ lastOp = NoOp
    /\ procs = <<>>
    /\ ops = 0
    /\ saver = Neo4jSaver

\* what was passed to the put that created each stored checkpoint
Written(w, d, id, entry) ==
    LET kept == [x \in {y \in DOMAIN w : CheckpointIdTaken(d, y)} |-> w[x]]
    IN  IF entry = <<>> THEN kept ELSE (id :> entry[1]) @@ kept

\* the writes submitted by putWrites for each stored checkpoint and task, in call order
Submitted(s, d, id, taskId, writes) ==
    LET kept == [k \in {x \in DOMAIN s : CheckpointIdTaken(d, x[1])} |-> s[k]]
        k    == <<id, taskId>>
    IN  IF writes = <<>> \/ ~CheckpointIdTaken(d, id) THEN kept
        ELSE (k :> ((IF k \in DOMAIN kept THEN kept[k] ELSE <<>>) \o writes)) @@ kept

PutArgs(config, id, input) ==
    [config |-> config, checkpoint |-> MkCheckpoint(id, input[1]),
     metadata |-> MetadataValues[input[2]]]

PutOutcome(p) ==
    IF p.pc = "done" THEN "ok" ELSE IF p.pc = "failed" THEN "error" ELSE "aborted"

\* a caller awaiting put; a config without thread_id throws before the session opens
Put(config, id, input) ==
    LET r     == put(db, config, id, input)
        args  == PutArgs(config, id, input)
        retry == id \in DOMAIN written /\ written[id] = args
    IN  /\ ops < MaxOps
        /\ ops' = ops + 1
        /\ IF ~parseConfig(config).ok
           THEN /\ db' = db
                /\ written' = written
                /\ lastOp' = Op("put", NoConfig, NoId, "error", FALSE)
           ELSE /\ db' = r.db
                /\ written' = Written(written, r.db, id,
                                      IF CheckpointIdTaken(db, id) THEN <<>> ELSE <<args>>)
                /\ lastOp' = IF PutOutcome(r.p) = "ok" \/ retry
                             THEN Op("put", config, id, PutOutcome(r.p), retry)
                             ELSE Op("put", NoConfig, NoId, PutOutcome(r.p), FALSE)
        /\ UNCHANGED <<submitted, procs, saver>>

\* a caller awaiting putWrites
PutWrites(config, writes, taskId) ==
    LET r == putWritesCall(db, config, writes, taskId)
    IN  /\ ops < MaxOps
        /\ BagSize(db.writes) + Len(writes) <= MaxWriteNodes
        /\ ops' = ops + 1
        /\ db' = r.db
        /\ submitted' = IF r.outcome = "ok"
                        THEN Submitted(submitted, db, config.checkpoint_id, taskId, writes)
                        ELSE submitted
        /\ lastOp' = IF r.outcome = "ok" THEN NoOp ELSE OpFailed
        /\ UNCHANGED <<written, procs, saver>>

\* a caller awaiting deleteThread
DeleteThread(threadId) ==
    /\ ops < MaxOps
    /\ ops' = ops + 1
    /\ db' = deleteThread(db, threadId)
    /\ written' = Written(written, db', NoId, <<>>)
    /\ submitted' = Submitted(submitted, db', NoId, "", <<>>)
    /\ lastOp' = NoOp
    /\ UNCHANGED <<procs, saver>>

\* a caller running CYPHER_CREATE_BRANCH; a taken branch id throws
RunCreateBranch(key, branchId, forkPoint) ==
    /\ ops < MaxOps
    /\ ops' = ops + 1
    /\ db' = IF key \in db.threads /\ BranchIdTaken(db, branchId) THEN db
             ELSE CreateBranch(db, key, branchId, "experiment", forkPoint)
    /\ lastOp' = IF key \in db.threads /\ BranchIdTaken(db, branchId) THEN OpFailed
                 ELSE NoOp
    /\ UNCHANGED <<written, submitted, procs, saver>>

\* a caller running CYPHER_SET_ACTIVE_BRANCH
RunSetActiveBranch(key, branchId) ==
    /\ ops < MaxOps
    /\ ops' = ops + 1
    /\ db' = SetActiveBranch(db, key, branchId)
    /\ lastOp' = NoOp
    /\ UNCHANGED <<written, submitted, procs, saver>>

\* a caller running CYPHER_DELETE_BRANCH
RunDeleteBranch(branchId) ==
    /\ ops < MaxOps
    /\ ops' = ops + 1
    /\ db' = DeleteBranch(db, branchId)
    /\ lastOp' = NoOp
    /\ UNCHANGED <<written, submitted, procs, saver>>

ParentIds == {NoId, 1, 2}

ForkPoints == {1, 2}

\* the configs putWrites is called with: a checkpoint of T1, none, and no thread_id
WriteConfigs ==
    {Config("T1", "", id) : id \in ForkPoints}
    \cup {Config("T1", "", NoId), Config(NoThread, "", 1)}

PutConfigs ==
    {Config(k.thread_id, k.checkpoint_ns, p) : k \in ThreadKeys, p \in ParentIds}
    \cup {NoConfig}

Next ==
    \/ \E c \in PutConfigs, id \in CheckpointIds : \E input \in PutInputs(id) :
          Put(c, id, input)
    \/ \E c \in WriteConfigs, w \in WriteInputs : PutWrites(c, w[2], w[1])
    \/ \E t \in ThreadIds : DeleteThread(t)
    \/ \E k \in ThreadKeys, b \in CallerBranchIds, f \in ForkPoints :
          RunCreateBranch(k, b, f)
    \/ \E k \in ThreadKeys, b \in BranchIds : RunSetActiveBranch(k, b)
    \/ \E b \in BranchIds : RunDeleteBranch(b)

Spec == Init /\ [][Next]_vars

----------------------------------------------------------------------------
(* Concurrent callers: the steps of put, deleteThread and setActiveBranch calls
   in flight interleave *)

MaxProcs == 2

ConcKey == Key("T1", "")

\* a deleteThread that has run CYPHER_DELETE_THREAD
DeleteThreadProc(threadId) ==
    [threadId |-> threadId, checkpointNs |-> "", parent |-> NoId, id |-> NoId,
     input |-> <<1, 1>>, pc |-> "orphans", i |-> 0, rows |-> NoRows, branchId |-> ""]

\* a CYPHER_SET_ACTIVE_BRANCH that has read its rows
SetActiveBranchProc(key, branchId, rows) ==
    [threadId |-> key.thread_id, checkpointNs |-> key.checkpoint_ns, parent |-> NoId,
     id |-> NoId, input |-> <<1, 1>>, pc |-> "activeWrite", i |-> 0, rows |-> rows,
     branchId |-> branchId]

Without(seq, i) == SubSeq(seq, 1, i - 1) \o SubSeq(seq, i + 1, Len(seq))

\* put is called: the config is parsed and the session opened
CallPut(config, id, input) ==
    /\ ops < MaxOps
    /\ Len(procs) < MaxProcs
    /\ ops' = ops + 1
    /\ procs' = Append(procs, PutStart(config, id, input))
    /\ UNCHANGED <<db, written, submitted, lastOp, saver>>

\* the next session.run of a put in flight
StepPut(i) ==
    /\ procs[i].pc \notin {"orphans", "activeWrite"}
    /\ db' = PutStep(db, procs[i]).db
    /\ procs' = IF PutEnded(PutStep(db, procs[i]).p) THEN Without(procs, i)
                ELSE [procs EXCEPT ![i] = PutStep(db, procs[i]).p]
    /\ UNCHANGED <<written, submitted, lastOp, ops, saver>>

\* deleteThread is called and runs CYPHER_DELETE_THREAD
CallDeleteThread(threadId) ==
    /\ ops < MaxOps
    /\ Len(procs) < MaxProcs
    /\ ops' = ops + 1
    /\ db' = DeleteThreadStmt(db, threadId)
    /\ procs' = Append(procs, DeleteThreadProc(threadId))
    /\ UNCHANGED <<written, submitted, lastOp, saver>>

\* a deleteThread in flight runs CYPHER_DELETE_ORPHAN_CHANNEL_STATES and returns
StepDeleteThread(i) ==
    /\ procs[i].pc = "orphans"
    /\ db' = DeleteOrphanChannelStates(db)
    /\ procs' = Without(procs, i)
    /\ UNCHANGED <<written, submitted, lastOp, ops, saver>>

\* a caller runs CYPHER_SET_ACTIVE_BRANCH: its rows are read
CallSetActiveBranch(key, branchId) ==
    /\ ops < MaxOps
    /\ Len(procs) < MaxProcs
    /\ ops' = ops + 1
    /\ procs' = Append(procs, SetActiveBranchProc(key, branchId,
                                                  SetActiveBranchMatch(db, key)))
    /\ UNCHANGED <<db, written, submitted, lastOp, saver>>

\* the writes of a CYPHER_SET_ACTIVE_BRANCH in flight, and its commit
StepSetActiveBranch(i) ==
    /\ procs[i].pc = "activeWrite"
    /\ db' = SetActiveBranchWrite(db, Key(procs[i].threadId, procs[i].checkpointNs),
                                  procs[i].rows, procs[i].branchId)
    /\ procs' = Without(procs, i)
    /\ UNCHANGED <<written, submitted, lastOp, ops, saver>>

ConcPutConfigs == {Config("T1", "", NoId), Config("T1", "", 1)}

ConcIds == {1, 2}

NextConc ==
    \/ \E c \in ConcPutConfigs, id \in ConcIds : \E input \in PutInputs(id) :
          CallPut(c, id, input)
    \/ \E i \in DOMAIN procs : StepPut(i)
    \/ CallDeleteThread("T1")
    \/ \E i \in DOMAIN procs : StepDeleteThread(i)
    \/ \E b \in CallerBranchIds, f \in ConcIds : RunCreateBranch(ConcKey, b, f)
    \/ \E b \in BranchIds : CallSetActiveBranch(ConcKey, b)
    \/ \E i \in DOMAIN procs : StepSetActiveBranch(i)
    \/ \E b \in BranchIds : RunDeleteBranch(b)

SpecConc == Init /\ [][NextConc]_vars

----------------------------------------------------------------------------
(* Sessions: every handler call with its session, statement by statement; a
   session.run may reject (store error) and a load may throw (decode failure) *)

\* the statements of setup (saver.ts 161-170)
SetupStatements == 7

\* a handler call that has not started: p holds its config and checkpoint as a put does
SessCall(op, config, id, input, writes) ==
    [op |-> op, p |-> PutStart(config, id, input), writes |-> writes, pc |-> "start",
     i |-> 0, rec |-> {}, left |-> 0, session |-> "none", opened |-> 0,
     result |-> "running"]

\* this.driver.session(...)
getSession(f) == [f EXCEPT !.session = "open", !.opened = @ + 1, !.pc = "run", !.i = 1]

\* faulty variant: control leaves the try block past session.close() when it threw
SessAfterNoFinally(f, result) ==
    IF result = "returned" THEN [f EXCEPT !.pc = "finally", !.result = result]
    ELSE [f EXCEPT !.pc = "ended", !.result = result]

\* try { ... } finally { await session.close() }: where control goes when the try
\* block is left, by return or by throw
SessAfter(f, result) == [f EXCEPT !.pc = "finally", !.result = result]

\* a call that has ended, with what is left of it: its session and its outcome
SessEnded(f) ==
    [SessCall(f.op, NoConfig, NoId, <<1, 1>>, <<>>) EXCEPT
        !.pc = "ended", !.session = f.session, !.opened = f.opened, !.result = f.result]

\* await session.close() in the finally block
sessionClose(f) == SessEnded([f EXCEPT !.session = "closed"])

SessConfig(f) == Config(f.p.threadId, f.p.checkpointNs, f.p.parent)

\* this.isSetup: a setup call has run all its statements
IsSetup(calls) ==
    \E i \in DOMAIN calls : calls[i].op = "setup" /\ calls[i].result = "returned"

\* the code of a handler before its try block: the call throws or returns without
\* a session, or opens one
SessOpen(f, isSetup) ==
    LET pc == parseConfig(SessConfig(f))
        throws == [f EXCEPT !.result = "config"]
    IN  CASE f.op = "setup" ->
               IF isSetup THEN SessEnded([f EXCEPT !.result = "returned"])
               ELSE getSession(f)
          [] f.op = "putWrites" ->
               IF ~pc.ok \/ pc.checkpointId = NoId THEN SessEnded(throws)
               ELSE IF f.writes = <<>> THEN SessAfter(getSession(f), "returned")
               ELSE getSession(f)
          [] f.op = "deleteThread" -> getSession(f)
          [] OTHER -> IF ~pc.ok THEN SessEnded(throws) ELSE getSession(f)

\* the next session.run of a call succeeds: the stores and calls that can follow
SessRunResults(d, f) ==
    LET pc  == parseConfig(SessConfig(f))
        key == Key(pc.threadId, pc.checkpointNs)
        one(db2, f2) == {[db |-> db2, f |-> f2]}
        next == [f EXCEPT !.i = @ + 1]
    IN  CASE f.op = "setup" ->
               one(d, IF f.i = SetupStatements THEN SessAfter(f, "returned") ELSE next)
          [] f.op = "put" ->
               LET r  == PutStep(d, f.p)
                   f2 == [f EXCEPT !.p = r.p]
               IN  one(r.db, IF r.p.pc = "done" THEN SessAfter(f2, "returned")
                             ELSE IF r.p.pc = "failed" THEN SessAfter(f2, "store")
                             ELSE f2)
          [] f.op = "putWrites" ->
               LET records == dumpWrites(f.writes, "t1")
               IN  one(UpsertWrite(d, pc.checkpointId, records[f.i]),
                       IF f.i = Len(records) THEN SessAfter(f, "returned") ELSE next)
          [] f.op = "getTuple" ->
               IF f.i = 1
               THEN IF GetTupleRecords(d, pc) = {} THEN one(d, SessAfter(f, "returned"))
                    ELSE {[db |-> d, f |-> [next EXCEPT !.rec = {r}]] :
                             r \in GetTupleRecords(d, pc)}
               ELSE LET r  == CHOOSE x \in f.rec : TRUE
                        cv == ChannelValuesOf(d, r)
                    IN  IF f.i = 2
                        THEN one(d, IF LoadThrows(UNION {cv[c] : c \in DOMAIN cv})
                                    THEN SessAfter(f, "decode") ELSE next)
                        ELSE {[db |-> d,
                               f  |-> IF LoadThrows({loadWrites(ws)[j][3] :
                                                        j \in 1..Len(ws)})
                                      THEN SessAfter(f, "decode")
                                      ELSE SessAfter(f, "returned")] :
                                 ws \in GetWrites(d, r.checkpoint_id)}
          [] f.op = "list" ->
               {[db |-> d,
                 f  |-> IF rows = <<>> THEN SessAfter(f, "returned")
                        ELSE [f EXCEPT !.pc = "yield", !.left = Len(rows)]] :
                   rows \in ListRows(d, key, ListCheckpointIds(d, key, NoId, DefaultLimit))}
          [] OTHER ->
               IF f.i = 1 THEN one(DeleteThreadStmt(d, f.p.threadId), next)
               ELSE one(DeleteOrphanChannelStates(d), SessAfter(f, "returned"))

MaxCalls == 3

SessOps == {"setup", "put", "putWrites", "getTuple", "list", "deleteThread"}

SessConfigs == {Config("T1", "", NoId), Config("T1", "", 1), NoConfig}

SessWrites == {<<>>, <<<<"x", Str("a")>>, <<"x", Map("json")>>>>}

SessIds == {1}

Running(calls) == {i \in DOMAIN calls : calls[i].pc # "ended"}

\* a handler is called
Call(op, config, id, input, writes) ==
    /\ ops < MaxCalls
    /\ Cardinality(Running(procs)) < MaxProcs
    /\ op # "put" => id = 1 /\ input = <<1, 1>>
    /\ op # "putWrites" => writes = <<>>
    /\ op \in {"setup", "deleteThread"} => config = Config("T1", "", NoId)
    /\ ops' = ops + 1
    /\ procs' = Append(procs, SessCall(op, config, id, input, writes))
    /\ UNCHANGED <<db, written, submitted, lastOp, saver>>

\* a call runs up to its getSession(), or ends before it
Open(i) ==
    /\ procs[i].pc = "start"
    /\ procs' = [procs EXCEPT ![i] = SessOpen(procs[i], IsSetup(procs))]
    /\ UNCHANGED <<db, written, submitted, lastOp, ops, saver>>

\* the next session.run of a call resolves
Run(i) ==
    /\ procs[i].pc = "run"
    /\ \E r \in SessRunResults(db, procs[i]) :
          /\ db' = r.db
          /\ procs' = [procs EXCEPT ![i] = r.f]
    /\ UNCHANGED <<written, submitted, lastOp, ops, saver>>

\* the next session.run of a call rejects: the store is down or refuses the statement
StoreError(i) ==
    /\ procs[i].pc = "run"
    /\ procs' = [procs EXCEPT ![i] = SessAfter(procs[i], "store")]
    /\ UNCHANGED <<db, written, submitted, lastOp, ops, saver>>

\* the consumer of list asks for the next tuple
ListNext(i) ==
    /\ procs[i].pc = "yield"
    /\ procs' = [procs EXCEPT ![i] = IF procs[i].left = 1
                                     THEN SessAfter([procs[i] EXCEPT !.left = 0], "returned")
                                     ELSE [procs[i] EXCEPT !.left = @ - 1]]
    /\ UNCHANGED <<db, written, submitted, lastOp, ops, saver>>

\* the consumer of list leaves its loop: the generator's return() runs the finally block
ListReturn(i) ==
    /\ procs[i].pc = "yield"
    /\ procs' = [procs EXCEPT ![i] = SessAfter([procs[i] EXCEPT !.left = 0], "returned")]
    /\ UNCHANGED <<db, written, submitted, lastOp, ops, saver>>

\* the finally block of a call
Close(i) ==
    /\ procs[i].pc = "finally"
    /\ procs' = [procs EXCEPT ![i] = sessionClose(procs[i])]
    /\ UNCHANGED <<db, written, submitted, lastOp, ops, saver>>

NextSess ==
    \/ \E op \in SessOps, c \in SessConfigs, id \in SessIds, w \in SessWrites :
          \E input \in PutInputs(id) : Call(op, c, id, input, w)
    \/ \E i \in DOMAIN procs : Open(i)
    \/ \E i \in DOMAIN procs : Run(i)
    \/ \E i \in DOMAIN procs : StoreError(i)
    \/ \E i \in DOMAIN procs : ListNext(i)
    \/ \E i \in DOMAIN procs : ListReturn(i)
    \/ \E i \in DOMAIN procs : Close(i)

SpecSess == Init /\ [][NextSess]_vars

----------------------------------------------------------------------------
(* The saver itself: made by the constructor or by fromConnString, then setup()
   and close() calls in any order, setup calls overlapping.  What a session.run
   does on a closed driver is the driver's business: it may resolve or reject. *)

InitSaver ==
    /\ db = EmptyDb
    /\ written = [id \in {} |-> 0]
    /\ submitted = [k \in {} |-> <<>>]
    /\ lastOp = NoOp
    /\ procs = <<>>
    /\ ops = 0
    /\ saver \in {Neo4jSaver, fromConnString}

MaxSaverCalls == 4

\* setup() is called
CallSetup ==
    /\ ops < MaxSaverCalls
    /\ Cardinality(Running(procs)) < MaxProcs
    /\ ops' = ops + 1
    /\ procs' = Append(procs, SessCall("setup", Config("T1", "", NoId), 1, <<1, 1>>, <<>>))
    /\ UNCHANGED <<db, written, submitted, lastOp, saver>>

\* a caller awaiting close()
CloseSaver ==
    /\ ops < MaxSaverCalls
    /\ ops' = ops + 1
    /\ saver' = close(saver)
    /\ UNCHANGED <<db, written, submitted, lastOp, procs>>

NextSaver ==
    \/ CallSetup
    \/ \E i \in DOMAIN procs : Open(i)
    \/ \E i \in DOMAIN procs : Run(i)
    \/ \E i \in DOMAIN procs : StoreError(i)
    \/ \E i \in DOMAIN procs : Close(i)
    \/ CloseSaver

SpecSaver == InitSaver /\ [][NextSaver]_vars

----------------------------------------------------------------------------
(* Properties *)

KeyOf(config) == Key(config.thread_id, config.checkpoint_ns)

\* the config that names checkpoint id of the thread of key
ConfigOf(key, id) == Config(key.thread_id, key.checkpoint_ns, id)

\* the parentConfig of a tuple of thread key whose checkpoint has the PREVIOUS parents ps
ParentConfigs(key, ps) == IF ps = {} THEN {<<>>} ELSE {<<ConfigOf(key, p)>> : p \in ps}

\* C1: every checkpoint written by put (and still stored) is returned by getTuple
\* with its exact id, and the tuple's payload, metadata and channel values are those
\* passed to put, whatever other puts happened.
C1_RoundTrip ==
    \A id \in DOMAIN written :
        LET a == written[id]
        IN  \A r \in getTuple(db, ConfigOf(KeyOf(a.config), id)) :
               /\ r.status = "found"
               /\ r.checkpoint = a.checkpoint
               /\ r.checkpoint.channel_values = a.checkpoint.channel_values
               /\ r.metadata = a.metadata

ActiveEdges(d, key) == BagSize(BagKeep(d.active, {e \in DOMAIN d.active : e[1] = key}))

\* C2: in every state reached by interleaved put, createBranch, setActiveBranch,
\* deleteBranch and deleteThread calls, concurrent ones included, a thread has at
\* most one ACTIVE_BRANCH edge.
C2_AtMostOneActiveBranch ==
    \A e \in DOMAIN db.active : ActiveEdges(db, e[1]) <= 1

\* C3: after a put of checkpoint c with parent p (none, or a stored checkpoint) on a
\* thread has returned, getTuple of the thread without a checkpoint id returns c
\* with parentConfig p, whatever put, createBranch, setActiveBranch and
\* deleteBranch calls came before.
C3_LatestIsLastPut ==
    (/\ lastOp.op = "put"
     /\ lastOp.outcome = "ok"
     /\ lastOp.config.checkpoint_id # NoId => CheckpointIdTaken(db, lastOp.config.checkpoint_id))
    => \A r \in getTuple(db, ConfigOf(KeyOf(lastOp.config), NoId)) :
          /\ r.status # "absent"
          /\ r.status = "found" =>
                /\ r.config.checkpoint_id = lastOp.id
                /\ r.parentConfig =
                      IF lastOp.config.checkpoint_id = NoId THEN <<>>
                      ELSE <<ConfigOf(KeyOf(lastOp.config), lastOp.config.checkpoint_id)>>

\* the HEAD checkpoints of the active branch of a thread
ActiveHeads(d, key) ==
    {h[2] : h \in {x \in DOMAIN d.head : <<key, x[1]>> \in DOMAIN d.active}}

BranchHeads(d, branchId) == {h[2] : h \in {x \in DOMAIN d.head : x[1] = branchId}}

HeadsOf(d, branchId) == BagKeep(d.head, {e \in DOMAIN d.head : e[1] = branchId})

\* createBranch b at fork point f, setActiveBranch b and a put of checkpoint c can be called
C5Case(key, b, f, c) ==
    /\ key \in db.threads
    /\ ~BranchIdTaken(db, b)
    /\ \E x \in ThreadCheckpoints(db, key) : x.checkpoint_id = f
    /\ ~CheckpointIdTaken(db, c)

\* the store after the three calls
C5After(key, b, f, p, c, input) ==
    put(SetActiveBranch(CreateBranch(db, key, b, "experiment", f), key, b),
        ConfigOf(key, p), c, input).db

\* C5: createBranch at a fork point, setActiveBranch to the new branch, then a put:
\* every branch that existed before has the HEAD it had, and the new branch has
\* one HEAD, the checkpoint just written.
C5_OnlyNewBranchHeadMoves ==
    \A key \in ThreadKeys, b \in CallerBranchIds, f \in ForkPoints, c \in CheckpointIds :
        C5Case(key, b, f, c) =>
            \A input \in PutInputs(c), p \in ParentIds :
                LET d3 == C5After(key, b, f, p, c, input)
                IN  /\ \A o \in db.branches :
                          HeadsOf(d3, o.branch_id) = HeadsOf(db, o.branch_id)
                    /\ HeadsOf(d3, b) = (<<b, c>> :> 1)

\* the thread has an active branch with a HEAD that is not the fork point, and the
\* three calls leave it there while the new branch is at the checkpoint written
C5_Witness ==
    \E key \in ThreadKeys, b \in CallerBranchIds, f \in ForkPoints, c \in CheckpointIds :
        /\ C5Case(key, b, f, c)
        /\ \E h \in ActiveHeads(db, key), input \in PutInputs(c) :
              LET d3 == C5After(key, b, f, f, c, input)
              IN  /\ h # f
                  /\ ActiveHeads(d3, key) = {c}
                  /\ \E o \in ThreadBranches(db, key) : BranchHeads(d3, o.branch_id) = {h}

\* the limits a caller passes to list
ListLimits == {NoLimit, 0, 1, 2, 3}

Min(a, b) == IF a < b THEN a ELSE b

\* the ids of the stored checkpoints that put wrote to the thread of key, below before
PutIdsBelow(key, before) ==
    {id \in DOMAIN written :
        /\ KeyOf(written[id].config) = key
        /\ before = NoId \/ id < before}

\* C6: list returns the checkpoints of the thread and namespace whose id is strictly
\* below `before` (all of them without `before`), in strictly descending id order,
\* without duplicates or gaps, cut to the first `limit` entries (DefaultLimit
\* without a limit); so after N puts, list with limit N returns all N.
C6_ListIsDescendingPrefix ==
    \A key \in ThreadKeys, before \in {NoId} \cup CheckpointIds, limit \in ListLimits :
        LET expected == PutIdsBelow(key, before)
            n        == IF limit = NoLimit THEN DefaultLimit ELSE limit
        IN  \A res \in list(db, ConfigOf(key, NoId),
                            IF before = NoId THEN <<>> ELSE <<ConfigOf(key, before)>>,
                            limit) :
               /\ Len(res) = Min(n, Cardinality(expected))
               /\ \A i \in 1..Len(res) :
                     /\ res[i].status = "found"
                     /\ KeyOf(res[i].config) = key
                     /\ res[i].config.checkpoint_id \in expected
                     /\ res[i].checkpoint = written[res[i].config.checkpoint_id].checkpoint
               /\ \A i, j \in 1..Len(res) :
                     i < j => res[i].config.checkpoint_id > res[j].config.checkpoint_id
               /\ \A e \in expected :
                     (Len(res) > 0 /\ e > res[Len(res)].config.checkpoint_id)
                        => \E i \in 1..Len(res) : res[i].config.checkpoint_id = e

\* three puts on one thread: list with limit 3 returns the three, and list before
\* the greatest id with limit 1 returns the one below it
C6_Witness ==
    \E key \in ThreadKeys :
        /\ Cardinality(ThreadCheckpoints(db, key)) = 3
        /\ \A res \in list(db, ConfigOf(key, NoId), <<>>, 3) :
              [i \in 1..Len(res) |-> res[i].config.checkpoint_id] = <<3, 2, 1>>
        /\ \A res \in list(db, ConfigOf(key, NoId), <<ConfigOf(key, 3)>>, 1) :
              [i \in 1..Len(res) |-> res[i].config.checkpoint_id] = <<2>>

\* the (channel, value) pairs of task taskId in pending writes, in their order
TaskWrites(pendingWrites, taskId) ==
    LET own == SelectSeq(pendingWrites, LAMBDA w : w[1] = taskId)
    IN  [i \in 1..Len(own) |-> <<own[i][2], own[i][3]>>]

\* C7: whatever putWrites calls were made on a checkpoint, getTuple of that
\* checkpoint returns the pending writes (rows in idx order) so that every task's
\* writes are all there, in the order in which they were submitted.
C7_TaskWritesInSubmissionOrder ==
    \A k \in DOMAIN submitted :
        \A r \in getTuple(db, ConfigOf(KeyOf(written[k[1]].config), k[1])) :
            r.status = "found" => TaskWrites(r.pendingWrites, k[2]) = submitted[k]

\* the checkpoint ids of a thread, in all its namespaces
ThreadIdCheckpoints(d, threadId) ==
    {c.checkpoint_id : c \in {x \in d.checkpoints : x.thread.thread_id = threadId}}

\* C8: after deleteThread(T), getTuple of T (with or without a checkpoint id)
\* returns absent and list of T is empty, in every namespace; the store holds no
\* Checkpoint or Branch of T, no PendingWrite of a checkpoint T had, and no
\* ChannelState without an incoming HAS_CHANNEL edge.
C8_DeleteThreadLeavesNothing ==
    \A t \in ThreadIds :
        LET d2 == deleteThread(db, t)
        IN  /\ \A ns \in Namespaces, id \in {NoId} \cup CheckpointIds :
                  getTuple(d2, Config(t, ns, id)) = {Absent}
            /\ \A ns \in Namespaces, limit \in ListLimits :
                  list(d2, Config(t, ns, NoId), <<>>, limit) = {<<>>}
            /\ ThreadIdCheckpoints(d2, t) = {}
            /\ \A b \in d2.branches : b.thread.thread_id # t
            /\ \A k \in d2.threads : k.thread_id # t
            /\ \A w \in DOMAIN d2.writes :
                  w.checkpoint_id \notin ThreadIdCheckpoints(db, t)
            /\ \A cs \in d2.channelStates : \E e \in DOMAIN d2.hasChannel : e[2] = cs
            /\ \A e \in DOMAIN d2.hasChannel : CheckpointIdTaken(d2, e[1])

\* thread T1 has checkpoints in two namespaces, a pending write, a branch and a
\* ChannelState of its own, another thread has a checkpoint, and deleteThread(T1)
\* removes the first and keeps the second
C8_Witness ==
    LET d2 == deleteThread(db, "T1")
    IN  /\ \E c \in ThreadCheckpoints(db, Key("T1", "")) :
              \E w \in DOMAIN db.writes : w.checkpoint_id = c.checkpoint_id
        /\ ThreadCheckpoints(db, Key("T1", "n")) # {}
        /\ ThreadBranches(db, Key("T1", "")) # {}
        /\ d2.channelStates # db.channelStates
        /\ d2.writes = EmptyBag
        /\ ThreadIdCheckpoints(d2, "T1") = {}

SameKey(cs, blob) == cs.channel = blob.channel /\ cs.version = blob.version

\* C9: there is at most one ChannelState per (channel, version); a put whose
\* (channel, version) is already stored links its checkpoint to that node and leaves
\* the node's type and blob as they were, and a put with a (channel, version) not
\* stored creates a node of its own with the put's type and blob.
C9_ChannelStateSharing ==
    [][/\ \A a, b \in db'.channelStates :
             (a.channel = b.channel /\ a.version = b.version) => a = b
       /\ (lastOp'.op = "put" /\ lastOp'.outcome = "ok") =>
             LET id    == lastOp'.id
                 blobs == dumpBlobs(written'[id].checkpoint.channel_values,
                                    written'[id].checkpoint.channel_versions)
             IN  \A i \in 1..Len(blobs) :
                    LET old == {cs \in db.channelStates : SameKey(cs, blobs[i])}
                        new == {cs \in db'.channelStates : SameKey(cs, blobs[i])}
                    IN  /\ \A cs \in new : Copies(db'.hasChannel, <<id, cs>>) = 1
                        /\ IF old # {} THEN new = old
                           ELSE /\ new \cap db.channelStates = {}
                                /\ new = {[channel |-> blobs[i].channel,
                                           version |-> blobs[i].version,
                                           type    |-> blobs[i].type,
                                           blob    |-> blobs[i].blob]}
      ]_vars

\* a checkpoint is linked to a ChannelState that holds another checkpoint's value
\* for the same (channel, version), beside a node for another version of the channel
C9_Witness ==
    \E id \in DOMAIN written :
        \E e \in DOMAIN db.hasChannel, other \in db.channelStates :
            /\ e[1] = id
            /\ e[2].channel = "x"
            /\ e[2].blob # JsonStringify(written[id].checkpoint.channel_values["x"])
            /\ isSimpleJsonSerializable(written[id].checkpoint.channel_values["x"])
            /\ other.channel = "x"
            /\ other.version # e[2].version

\* C10: a put retried with the id and arguments of an earlier put succeeds, and the
\* store then holds one Checkpoint with that id, its one PREVIOUS edge, one
\* HAS_CHANNEL edge per channel and one HEAD on the active branch, at that checkpoint.
C10_RetryIsSafe ==
    (lastOp.op = "put" /\ lastOp.retry) =>
        LET id  == lastOp.id
            key == KeyOf(lastOp.config)
            p   == lastOp.config.checkpoint_id
            values == written[id].checkpoint.channel_values
        IN  /\ lastOp.outcome = "ok"
            /\ Cardinality(CheckpointNodes(db, id)) = 1
            /\ (p # NoId /\ CheckpointIdTaken(db, p)) => Parents(db, id) = {p}
            /\ \A c \in DOMAIN values :
                  BagSize(BagKeep(db.hasChannel,
                                  {e \in DOMAIN db.hasChannel :
                                      e[1] = id /\ e[2].channel = c})) = 1
            /\ \A e \in DOMAIN db.active :
                  e[1] = key => HeadsOf(db, e[2]) = (<<e[2], id>> :> 1)

\* the channels of a checkpoint that have a value and a version
VersionedChannels(checkpoint) ==
    {c \in DOMAIN checkpoint.channel_values \cap DOMAIN checkpoint.channel_versions :
        checkpoint.channel_versions[c] # NoVersion}

\* the rows CYPHER_GET_CHANNEL_STATES gives getTuple for a checkpoint (saver.ts 360-369)
ChannelRows(d, checkpoint) ==
    GetChannelStates(d, checkpoint.id, DOMAIN checkpoint.channel_versions,
                     {VersionString(checkpoint.channel_versions[c]) :
                         c \in DOMAIN checkpoint.channel_versions})

\* checkpoint has, for each of its versioned channels, a HAS_CHANNEL link to the
\* ChannelState of that channel and version, and getTuple's statement reads it
ChannelsLinked(d, checkpoint) ==
    \A c \in VersionedChannels(checkpoint) :
        \E cs \in ChannelRows(d, checkpoint) :
            /\ cs \in d.channelStates
            /\ cs.channel = c
            /\ cs.version = VersionString(checkpoint.channel_versions[c])

\* C11: once put has returned, getTuple by the id of its checkpoint (while the
\* checkpoint is stored) finds the Checkpoint node, and the node has its
\* HAS_CHANNEL link to the ChannelState of every channel of the checkpoint that
\* has a value and a version.
C11_ReturnedPutHasChannelLinks ==
    \A id \in DOMAIN written :
        LET a == written[id]
        IN  /\ Absent \notin getTuple(db, ConfigOf(KeyOf(a.config), id))
            /\ ChannelsLinked(db, a.checkpoint)

\* two stored checkpoints of different threads are linked to one ChannelState, which
\* the second put found already there
C11_Witness ==
    \E i \in DOMAIN written, j \in DOMAIN written :
        /\ i < j
        /\ KeyOf(written[i].config) # KeyOf(written[j].config)
        /\ VersionedChannels(written[j].checkpoint) # {}
        /\ ChannelRows(db, written[i].checkpoint) = ChannelRows(db, written[j].checkpoint)
        /\ ChannelsLinked(db, written[j].checkpoint)

\* put p in flight has created its Checkpoint node (step 1 has committed)
PutCreated(d, p) ==
    /\ p.pc \in {"parent", "channel", "branches", "main", "mainWrite", "head", "headWrite"}
    /\ \E c \in CheckpointNodes(d, p.id) :
          /\ c.thread = Key(p.threadId, p.checkpointNs)
          /\ c.checkpoint = dumpCheckpoint(MkCheckpoint(p.id, p.input[1]))[2]

\* the tuples a getTuple (by id, or latest) or a list of the thread of put p returns
\* for the checkpoint p writes, when it runs on store d
ReadsOf(d, p) ==
    LET key   == Key(p.threadId, p.checkpointNs)
        lists == list(d, ConfigOf(key, NoId), <<>>, NoLimit)
        all   == getTuple(d, ConfigOf(key, p.id)) \cup getTuple(d, ConfigOf(key, NoId))
                 \cup UNION {{l[n] : n \in DOMAIN l} : l \in lists}
    IN  {r \in all : r.status = "found" /\ r.config.checkpoint_id = p.id}

\* C12: a getTuple or a list that runs between two statements of a put in flight and
\* returns the checkpoint being written returns it with its parentConfig (when the
\* parent given to put is stored), and the checkpoint has all its channel-state links.
C12_NoTornRead ==
    \A i \in DOMAIN procs :
        LET p == procs[i]
        IN  PutCreated(db, p) =>
               \A r \in ReadsOf(db, p) :
                  /\ (p.parent # NoId /\ CheckpointIdTaken(db, p.parent)) =>
                        r.parentConfig =
                           <<ConfigOf(Key(p.threadId, p.checkpointNs), p.parent)>>
                  /\ ChannelsLinked(db, MkCheckpoint(p.id, p.input[1]))

\* store e differs from store d by additions for checkpoint id only: the checkpoints
\* of d, their PREVIOUS edges, HAS_CHANNEL links and ChannelState blobs, the pending
\* writes and the HEAD edges of every branch of d are in e as they are in d
OlderKept(d, e, id) ==
    /\ d.checkpoints \subseteq e.checkpoints
    /\ \A c \in e.checkpoints \ d.checkpoints :
          c.checkpoint_id = id /\ ~CheckpointIdTaken(d, id)
    /\ {x \in e.previous : CheckpointIdTaken(d, x[1])} = d.previous
    /\ BagKeep(e.hasChannel, {x \in DOMAIN e.hasChannel : CheckpointIdTaken(d, x[1])})
         = d.hasChannel
    /\ d.channelStates \subseteq e.channelStates
    /\ \A cs \in e.channelStates \ d.channelStates :
          ~\E o \in d.channelStates : o.channel = cs.channel /\ o.version = cs.version
    /\ e.writes = d.writes
    /\ BagKeep(e.head, {x \in DOMAIN e.head : BranchIdTaken(d, x[1])}) = d.head

\* a put that is cut off before the statement `stop`: the store it leaves, and
\* whether it came to that statement (it has not thrown, and does issue it)
StoppedPut(d, config, id, input, stop) ==
    LET r == PutRun(d, PutStart(config, id, input), stop)
    IN  [db |-> r.db, reached |-> <<r.p.pc, r.p.i>> = stop]

\* the puts a caller can make on a thread
ThreadPutConfigs == PutConfigs \ {NoConfig}

\* C13 as stated: a put that stops after any one of its statements, the last
\* (CYPHER_UPDATE_BRANCH_HEAD) included, leaves every older checkpoint, its PREVIOUS
\* edge, channel-state links and blobs, pending writes and every HEAD as they were.
C13_StoppedPutKeepsAll ==
    ops < MaxOps =>
        \A config \in ThreadPutConfigs, id \in CheckpointIds, stop \in PutStops :
            \A input \in PutInputs(id) :
                LET r == StoppedPut(db, config, id, input, stop)
                IN  (stop = <<"none", 0>> \/ r.reached) => OlderKept(db, r.db, id)

\* C13 amended: a put that stops after any of its statements before
\* CYPHER_UPDATE_BRANCH_HEAD leaves every older checkpoint, its PREVIOUS edge,
\* channel-state links and blobs, pending writes and every HEAD as they were; the
\* only Checkpoint node added is the new one.
C13_StoppedPutKeepsOlder ==
    ops < MaxOps =>
        \A config \in ThreadPutConfigs, id \in CheckpointIds,
           stop \in PutStops \ {<<"none", 0>>} :
            \A input \in PutInputs(id) :
                LET r == StoppedPut(db, config, id, input, stop)
                IN  r.reached => OlderKept(db, r.db, id)

\* a put with a stored parent is cut off before CYPHER_UPDATE_BRANCH_HEAD on a thread
\* whose active branch has a HEAD, with a pending write stored: the new checkpoint
\* is there with its PREVIOUS edge and channel links, and the HEAD has not moved
C13_Witness ==
    /\ ops < MaxOps
    /\ \E config \in ThreadPutConfigs, id \in CheckpointIds :
          \E input \in PutInputs(id) :
             LET r == StoppedPut(db, config, id, input, <<"head", 0>>)
             IN  /\ r.reached
                 /\ ActiveHeads(db, KeyOf(config)) # {}
                 /\ DOMAIN db.writes # {}
                 /\ ~CheckpointIdTaken(db, id)
                 /\ CheckpointIdTaken(r.db, id)
                 /\ <<id, config.checkpoint_id>> \in r.db.previous
                 /\ ChannelsLinked(r.db, MkCheckpoint(id, input[1]))
                 /\ r.db.head = db.head

\* C14: a put whose config names a parent checkpoint id that no stored checkpoint has
\* fails; so the parent named by a put that returned a config was stored before it.
C14_MissingParentFails ==
    (/\ lastOp.op = "put"
     /\ lastOp.outcome = "ok"
     /\ lastOp.config.checkpoint_id # NoId)
    => /\ lastOp.config.checkpoint_id # lastOp.id
       /\ CheckpointIdTaken(db, lastOp.config.checkpoint_id)

\* C15: createBranch on a thread with a fork point that is not a stored checkpoint
\* fails with an error and creates no Branch node.
C15_MissingForkPointFails ==
    [][\A k \in ThreadKeys, b \in CallerBranchIds, f \in ForkPoints :
          (/\ RunCreateBranch(k, b, f)
           /\ k \in db.threads
           /\ ~CheckpointIdTaken(db, f)) =>
             /\ lastOp'.outcome = "error"
             /\ db'.branches = db.branches
      ]_vars

\* C16: setActiveBranch with a branch id that is not the id of a branch of the thread
\* (no branch has it, or a branch of another thread has it) fails with an error.
C16_ForeignBranchFails ==
    [][\A k \in ThreadKeys, b \in BranchIds :
          (/\ RunSetActiveBranch(k, b)
           /\ k \in db.threads
           /\ ~\E x \in ThreadBranches(db, k) : x.branch_id = b) =>
             lastOp'.outcome = "error"
      ]_vars

\* configs without thread_id
NoThreadConfigs ==
    {Config(NoThread, ns, id) : ns \in Namespaces, id \in {NoId} \cup CheckpointIds}

\* configs with a thread_id and no checkpoint_id
NoIdConfigs == {ConfigOf(k, NoId) : k \in ThreadKeys}

\* C17: put, putWrites, getTuple and list with a config that has no thread_id, and
\* putWrites with a config that has no checkpoint_id, throw before the session is
\* opened and leave the store as it is.
C17_BadConfigThrowsFirst ==
    /\ \A c \in NoThreadConfigs, id \in CheckpointIds :
          \A input \in PutInputs(id) :
             LET r == putCall(db, c, id, input)
             IN  r.outcome = "error" /\ ~r.session /\ r.db = db
    /\ \A c \in NoThreadConfigs \cup NoIdConfigs, w \in WriteInputs :
          LET r == putWritesCall(db, c, w[2], w[1])
          IN  r.outcome = "error" /\ ~r.session /\ r.db = db
    /\ \A c \in NoThreadConfigs :
          /\ getTuple(db, c) = {Threw}
          /\ list(db, c, <<>>, NoLimit) = {<<Threw>>}

\* a putWrites without checkpoint_id has just thrown on a store that holds a
\* checkpoint of the thread and a pending write; with the checkpoint's id the same
\* call stores its writes
C17_Witness ==
    /\ lastOp = OpFailed
    /\ DOMAIN db.writes # {}
    /\ \E w \in WriteInputs :
          /\ putWritesCall(db, Config("T1", "", NoId), w[2], w[1]).outcome = "error"
          /\ putWritesCall(db, Config("T1", "", 1), w[2], w[1]).outcome = "ok"
          /\ putWritesCall(db, Config("T1", "", 1), w[2], w[1]).db # db

\* the thread and namespace pairs a config can name
AllKeys == {Key(t, n) : t \in ThreadIds, n \in Namespaces}

\* C18: getTuple returns absent, and does not throw, for a thread that does not
\* exist or has no checkpoint, and for a checkpoint id that no checkpoint of the
\* thread and namespace has (a checkpoint of another thread may have it).
C18_MissingIsAbsent ==
    \A key \in AllKeys :
        /\ ThreadCheckpoints(db, key) = {} =>
              getTuple(db, ConfigOf(key, NoId)) = {Absent}
        /\ \A id \in CheckpointIds :
              (~\E c \in ThreadCheckpoints(db, key) : c.checkpoint_id = id) =>
                 getTuple(db, ConfigOf(key, id)) = {Absent}

\* a thread holds a checkpoint under one namespace; getTuple is absent for the id of
\* a checkpoint of another thread, for the thread's other namespace with that
\* checkpoint's id, and for a thread that does not exist
C18_Witness ==
    \E key \in AllKeys, other \in AllKeys, none \in AllKeys :
        \E c \in ThreadCheckpoints(db, key), o \in ThreadCheckpoints(db, other) :
            /\ key.thread_id # other.thread_id
            /\ none.thread_id = key.thread_id
            /\ none \notin db.threads
            /\ Absent \notin getTuple(db, ConfigOf(key, c.checkpoint_id))
            /\ getTuple(db, ConfigOf(key, o.checkpoint_id)) = {Absent}
            /\ getTuple(db, ConfigOf(none, c.checkpoint_id)) = {Absent}
            /\ getTuple(db, ConfigOf(none, NoId)) = {Absent}

MainBranches(d, key) == {b \in ThreadBranches(d, key) : b.name = "main"}

\* a put that runs alone from store d to its return on a thread without branch leaves
\* the thread one branch, named main, with the thread's one ACTIVE_BRANCH edge
FirstPutCreatesMain(d, config, id, input) ==
    LET key == KeyOf(config)
        r   == put(d, config, id, input)
    IN  (ThreadBranches(d, key) = {} /\ r.p.pc = "done") =>
           /\ Cardinality(ThreadBranches(r.db, key)) = 1
           /\ MainBranches(r.db, key) = ThreadBranches(r.db, key)
           /\ \A b \in ThreadBranches(r.db, key) :
                 BagKeep(r.db.active, {e \in DOMAIN r.db.active : e[1] = key})
                   = (<<key, b.branch_id>> :> 1)
           /\ r.db.branches \ ThreadBranches(r.db, key) = d.branches

\* a put that runs alone from store d on a thread with a branch creates no branch
LaterPutCreatesNoBranch(d, config, id, input) ==
    ThreadBranches(d, KeyOf(config)) # {} => put(d, config, id, input).db.branches = d.branches

\* C19: the first put on a thread without branch creates exactly one branch, named
\* main, and makes it active; a put on a thread with a branch creates none; and with
\* concurrent first puts too a thread never has more than one main branch.
C19_ExactlyOneMain ==
    /\ \A config \in ConcPutConfigs, id \in ConcIds :
          \A input \in PutInputs(id) :
             /\ FirstPutCreatesMain(db, config, id, input)
             /\ LaterPutCreatesNoBranch(db, config, id, input)
    /\ \A key \in AllKeys : Cardinality(MainBranches(db, key)) <= 1

\* the checkpoints appended on a branch: those with an ON_BRANCH edge to it
AppendedOn(d, branchId) == {e[1] : e \in {x \in d.onBranch : x[2] = branchId}}

\* put number i in flight commits CYPHER_UPDATE_BRANCH_HEAD in this step and appends
\* its checkpoint on branch branchId
AppendsOn(i, branchId) ==
    /\ procs[i].pc = "headWrite"
    /\ StepPut(i)
    /\ \E a \in DOMAIN procs[i].rows.active : a[2] = branchId
    /\ procs[i].id \in AppendedOn(db', branchId)

\* C20: in every state a branch has at most one HEAD edge; a branch on which a
\* checkpoint has been appended has exactly one, and it moves only when a put appends
\* a checkpoint on the branch, to that checkpoint; this with the steps of put,
\* createBranch, setActiveBranch, deleteBranch and deleteThread calls interleaved.
C20_OneHeadAtLastAppended ==
    [][/\ \A b \in db'.branches : BagSize(HeadsOf(db', b.branch_id)) <= 1
       /\ \A b \in db'.branches :
             AppendedOn(db', b.branch_id) # {} =>
                BagSize(HeadsOf(db', b.branch_id)) = 1
       /\ \A b \in db.branches \cap db'.branches :
             (AppendedOn(db, b.branch_id) # {}
              /\ HeadsOf(db', b.branch_id) # HeadsOf(db, b.branch_id)) =>
                \E i \in DOMAIN procs :
                   /\ AppendsOn(i, b.branch_id)
                   /\ HeadsOf(db', b.branch_id) = (<<b.branch_id, procs[i].id>> :> 1)
      ]_vars

RECURSIVE PreviousReach(_, _, _)
\* the checkpoint ids reached from the ids of S along at most n PREVIOUS edges
PreviousReach(d, S, n) ==
    IF n = 0 THEN S
    ELSE PreviousReach(d, S \cup UNION {Parents(d, id) : id \in S}, n - 1)

\* the checkpoint ids reached from id along one PREVIOUS edge or more
Ancestors(d, id) == PreviousReach(d, Parents(d, id), Cardinality(CheckpointIds))

\* C21: in every reachable state the PREVIOUS edges form a forest: every
\* checkpoint has at most one PREVIOUS parent and none reaches itself along
\* PREVIOUS edges, whatever checkpoint id and parent id put is called with
C21_PreviousIsForest ==
    \A id \in CheckpointIds :
        /\ Cardinality(Parents(db, id)) <= 1
        /\ id \notin Ancestors(db, id)

\* the HEAD edges of the branches other than branchId
OtherHeads(d, branchId) == BagKeep(d.head, {e \in DOMAIN d.head : e[1] # branchId})

\* everything of the store that hangs on checkpoints
CheckpointPart(d) ==
    <<d.threads, d.checkpoints, d.previous, d.channelStates, d.hasChannel, d.writes>>

\* C22: CYPHER_CREATE_BRANCH on a thread, with the id of a stored checkpoint as
\* fork point, adds one Branch whose only HEAD edge goes to the fork point and
\* whose fork_point_id is the fork point's id; the ACTIVE_BRANCH edges, the HEAD
\* edges of the other branches, their ON_BRANCH edges and all checkpoints stay
C22_CreateBranchFrame ==
    [][\A k \in ThreadKeys, b \in CallerBranchIds, f \in ForkPoints :
          (/\ RunCreateBranch(k, b, f)
           /\ k \in db.threads
           /\ ~BranchIdTaken(db, b)
           /\ CheckpointIdTaken(db, f))
          => /\ db'.branches = db.branches \cup {[thread |-> k, branch_id |-> b,
                                                  name |-> "experiment",
                                                  fork_point_id |-> f]}
             /\ Cardinality(db'.branches) = Cardinality(db.branches) + 1
             /\ BagKeep(db'.head, {e \in DOMAIN db'.head : e[1] = b}) = (<<b, f>> :> 1)
             /\ OtherHeads(db', b) = OtherHeads(db, b)
             /\ db'.active = db.active
             /\ db'.onBranch = db.onBranch
             /\ CheckpointPart(db') = CheckpointPart(db)
             /\ lastOp'.outcome = "ok" ]_vars

\* a branch made by CYPHER_CREATE_BRANCH stands next to the thread's active main
\* branch, with its HEAD at its fork point and the HEAD of main elsewhere
C22_Witness ==
    \E b \in db.branches, m \in db.branches :
        /\ b.branch_id \in CallerBranchIds
        /\ m.thread = b.thread
        /\ m.name = "main"
        /\ CheckpointIdTaken(db, b.fork_point_id)
        /\ Copies(db.head, <<b.branch_id, b.fork_point_id>>) = 1
        /\ Copies(db.active, <<m.thread, m.branch_id>>) = 1
        /\ Copies(db.active, <<b.thread, b.branch_id>>) = 0
        /\ \E h \in DOMAIN db.head : h[1] = m.branch_id /\ h[2] # b.fork_point_id

\* C23: CYPHER_DELETE_BRANCH of a stored branch removes the Branch node with its
\* HAS_BRANCH, ACTIVE_BRANCH, HEAD and ON_BRANCH edges, and leaves every
\* checkpoint, PREVIOUS edge, channel-state link, pending write and every other
\* branch with its HEAD, ACTIVE_BRANCH and ON_BRANCH edges as they were
C23_DeleteBranchFrame ==
    [][\A b \in BranchIds :
          (RunDeleteBranch(b) /\ BranchIdTaken(db, b))
          => /\ ~BranchIdTaken(db', b)
             /\ \A e \in DOMAIN db'.active : e[2] # b
             /\ \A e \in DOMAIN db'.head : e[1] # b
             /\ \A e \in db'.onBranch : e[2] # b
             /\ db'.branches = {x \in db.branches : x.branch_id # b}
             /\ OtherHeads(db', b) = OtherHeads(db, b)
             /\ db'.active = BagKeep(db.active, {e \in DOMAIN db.active : e[2] # b})
             /\ db'.onBranch = {e \in db.onBranch : e[2] # b}
             /\ CheckpointPart(db') = CheckpointPart(db) ]_vars

\* the only branch of a thread was deleted: its checkpoint is stored with its
\* channel-state link, and a branch of another thread still has its HEAD
C23_Witness ==
    \E c \in db.checkpoints, o \in db.branches :
        /\ ThreadBranches(db, c.thread) = {}
        /\ \A e \in DOMAIN db.head : e[2] # c.checkpoint_id
        /\ \E e \in DOMAIN db.hasChannel : e[1] = c.checkpoint_id
        /\ o.thread # c.thread
        /\ \E e \in DOMAIN db.head : e[1] = o.branch_id
        /\ Copies(db.active, <<o.thread, o.branch_id>>) = 1

\* C24: a stored Checkpoint node keeps its checkpoint id, type, serialized
\* payload and serialized metadata (and its thread) through every later put,
\* putWrites, createBranch, setActiveBranch and deleteBranch, and no second node
\* takes its id; it goes only with a deleteThread of its thread id
C24_CheckpointsImmutable ==
    [][\A c \in db.checkpoints :
          \/ /\ c \in db'.checkpoints
             /\ CheckpointNodes(db', c.checkpoint_id) = {c}
          \/ /\ DeleteThread(c.thread.thread_id)
             /\ ~CheckpointIdTaken(db', c.checkpoint_id) ]_vars

\* a put of the id of a stored checkpoint has been rejected, and the node decodes
\* to what its first put wrote
C24_Witness ==
    /\ lastOp.op = "put"
    /\ lastOp.outcome = "error"
    /\ lastOp.id \in DOMAIN written
    /\ \E c \in CheckpointNodes(db, lastOp.id) :
          /\ loadCheckpoint(c.type, c.checkpoint) = written[lastOp.id].checkpoint
          /\ loadMetadata(c.type, c.metadata) = written[lastOp.id].metadata
    /\ db.branches # {}
    /\ ops = MaxOps

\* a tuple returned for the thread of key is of a checkpoint stored under that
\* thread by a put on it, and its parentConfig, if any, names one stored under it
OfStream(d, key, tuple) ==
    tuple.status = "found" =>
        /\ \E c \in ThreadCheckpoints(d, key) :
              /\ c.checkpoint_id = tuple.config.checkpoint_id
              /\ c.checkpoint_id \in DOMAIN written
              /\ KeyOf(written[c.checkpoint_id].config) = key
        /\ tuple.parentConfig # <<>> =>
              \E c \in ThreadCheckpoints(d, key) :
                  c.checkpoint_id = tuple.parentConfig[1].checkpoint_id

\* C25: threads and namespaces are independent streams: getTuple and list for a
\* thread and namespace return only checkpoints written by a put on that thread
\* and namespace, and the parentConfig they report names a checkpoint of it
C25_StreamsIndependent ==
    \A key \in ThreadKeys :
        /\ \A id \in CheckpointIds \cup {NoId} :
              \A tuple \in getTuple(db, ConfigOf(key, id)) : OfStream(db, key, tuple)
        /\ \A tuples \in list(db, ConfigOf(key, NoId), <<>>, NoLimit) :
              \A i \in DOMAIN tuples : OfStream(db, key, tuples[i])

\* C26: when two puts on one thread and one active branch overlap and both
\* return, both checkpoints are stored and ON_BRANCH that branch, and the branch
\* has exactly one HEAD edge, to the checkpoint of the put whose
\* CYPHER_UPDATE_BRANCH_HEAD committed last.  Stated on the commit of the later
\* statement, which had read one ACTIVE_BRANCH edge and at most one HEAD edge
C26_LastHeadAdvanceWins ==
    [][\A i \in DOMAIN procs, b \in BranchIds :
          (/\ AppendsOn(i, b)
           /\ procs[i].rows.active = (<<ConcKey, b>> :> 1)
           /\ BagSize(procs[i].rows.head) <= 1
           /\ BranchIdTaken(db', b)
           /\ \E o \in AppendedOn(db, b) :
                 o # procs[i].id /\ CheckpointIdTaken(db', o))
          => /\ CheckpointIdTaken(db', procs[i].id)
             /\ HeadsOf(db', b) = (<<b, procs[i].id>> :> 1) ]_vars

AllButWrites(d) == [d EXCEPT !.writes = EmptyBag]

\* C28: putWrites with n writes on a stored checkpoint adds exactly n PendingWrite
\* nodes under that checkpoint, the one of position i with idx i - 1 and the
\* channel, task and encoded value of that write, and changes nothing else;
\* putWrites on a checkpoint id that is not stored changes nothing and creates no
\* Checkpoint; in every state each PendingWrite hangs on exactly one stored
\* checkpoint
C28_PutWritesAddsOnePerWrite ==
    [][/\ \A config \in WriteConfigs, w \in WriteInputs :
             LET id     == config.checkpoint_id
                 writes == w[2]
             IN  (/\ PutWrites(config, writes, w[1])
                  /\ parseConfig(config).ok
                  /\ id # NoId)
                 => /\ lastOp'.outcome = "ok"
                    /\ AllButWrites(db') = AllButWrites(db)
                    /\ \A x \in DOMAIN db.writes :
                          Copies(db'.writes, x) >= Copies(db.writes, x)
                    /\ IF CheckpointIdTaken(db, id)
                       THEN /\ BagSize(db'.writes) = BagSize(db.writes) + Len(writes)
                            /\ \A i \in 1..Len(writes) :
                                  \E x \in DOMAIN db'.writes :
                                     /\ x.checkpoint_id = id
                                     /\ x.idx = i - 1
                                     /\ x.task_id = w[1]
                                     /\ x.channel = writes[i][1]
                                     /\ x.type = DumpValue(writes[i][2]).type
                                     /\ x.blob = DumpValue(writes[i][2]).blob
                                     /\ Copies(db'.writes, x) = Copies(db.writes, x) + 1
                       ELSE db'.writes = db.writes
       /\ \A x \in DOMAIN db'.writes :
             Cardinality(CheckpointNodes(db', x.checkpoint_id)) = 1 ]_vars

\* two putWrites calls of one task have added three PendingWrite nodes under one
\* stored checkpoint, with idx 0, 1 and 0
C28_Witness ==
    \E id \in CheckpointIds :
        LET own == BagKeep(db.writes, {x \in DOMAIN db.writes : x.checkpoint_id = id})
        IN  /\ CheckpointIdTaken(db, id)
            /\ BagSize(own) = 3
            /\ BagSize(BagKeep(own, {x \in DOMAIN own : x.idx = 0})) = 2
            /\ BagSize(BagKeep(own, {x \in DOMAIN own : x.idx = 1})) = 1
            /\ \A x \in DOMAIN own : x.task_id = "t1"

\* C29: every session opened by setup, put, putWrites, getTuple, list or
\* deleteThread is closed when the call has ended, whether it returned, a load threw
\* (decode failure) or a session.run rejected (store error); a call opens at most
\* one session, and a session is open only while its call is in its try block
C29_SessionsClosed ==
    \A i \in DOMAIN procs :
        /\ procs[i].opened <= 1
        /\ procs[i].pc = "ended" =>
              procs[i].session = (IF procs[i].opened = 1 THEN "closed" ELSE "none")
        /\ procs[i].session = "open" => procs[i].pc \in {"run", "yield", "finally"}

\* three calls have ended with their sessions closed: one returned, one threw on a
\* stored value that does not decode, one threw on a rejected session.run
C29_Witness ==
    \E i, j, k \in DOMAIN procs :
        /\ procs[i].result = "returned"
        /\ procs[j].result = "decode"
        /\ procs[k].result = "store"
        /\ \A n \in {i, j, k} :
              /\ procs[n].pc = "ended"
              /\ procs[n].opened = 1
              /\ procs[n].session = "closed"

\* the ChannelState nodes a checkpoint has a HAS_CHANNEL edge to
LinkedStates(d, id) == {e[2] : e \in {x \in DOMAIN d.hasChannel : x[1] = id}}

\* C30: for every stored checkpoint, the rows CYPHER_GET_CHANNEL_STATES gives
\* getTuple are exactly the ChannelStates linked to it whose channel and version
\* together are one (channel, version) pair of its channel_versions: no row of
\* one channel is selected by a version that only another channel has
C30_ChannelRowsMatchPairs ==
    \A c \in db.checkpoints :
        LET checkpoint == loadCheckpoint(c.type, c.checkpoint)
            versions   == checkpoint.channel_versions
        IN  ChannelRows(db, checkpoint)
               = {cs \in LinkedStates(db, c.checkpoint_id) :
                     /\ cs.channel \in DOMAIN versions
                     /\ cs.version = VersionString(versions[cs.channel])}

\* a stored checkpoint has two channels at different versions and resolves one row
\* for each, while the store holds a ChannelState of its first channel at the
\* version of its second
C30_Witness ==
    \E c \in db.checkpoints :
        LET checkpoint == loadCheckpoint(c.type, c.checkpoint)
            versions   == checkpoint.channel_versions
        IN  /\ DOMAIN versions = {"x", "y"}
            /\ versions["x"] # versions["y"]
            /\ Cardinality(ChannelRows(db, checkpoint)) = 2
            /\ \E cs \in db.channelStates :
                  /\ cs.channel = "x"
                  /\ cs.version = VersionString(versions["y"])

\* the channel values getTuple decodes from the ChannelState rows of a checkpoint
DecodedRows(d, checkpoint) == loadBlobs(ChannelRows(d, checkpoint))

\* C31: the channel values of a tuple returned by getTuple are the values decoded
\* from the ChannelState rows of the checkpoint's (channel, version) pairs, and so two
\* checkpoints that reference the same (channel, version) read back the same value.
C31_ChannelValuesAreDecodedRows ==
    \A i \in DOMAIN written, j \in DOMAIN written :
        \A r \in getTuple(db, ConfigOf(KeyOf(written[i].config), i)),
           s \in getTuple(db, ConfigOf(KeyOf(written[j].config), j)) :
            (r.status = "found" /\ s.status = "found") =>
                \A c \in VersionedChannels(r.checkpoint) :
                    /\ c \in DOMAIN DecodedRows(db, r.checkpoint)
                    /\ r.checkpoint.channel_values[c] \in DecodedRows(db, r.checkpoint)[c]
                    /\ (/\ c \in VersionedChannels(s.checkpoint)
                        /\ s.checkpoint.channel_versions[c] = r.checkpoint.channel_versions[c])
                       => s.checkpoint.channel_values[c] = r.checkpoint.channel_values[c]

\* decoding what DumpValue stored for value gives value back
RoundTrips(value) ==
    LET e == DumpValue(value)
    IN  LoadValue(e.type, e.blob) = value

\* C32: encoding then decoding a channel value or a pending-write value returns the
\* original value for every kind of value: JSON-safe values, values stored through the
\* serializer as the wrapper, and JSON-safe mappings that carry the marker key
\* __serde_type__ themselves.
C32_EncodeDecodeRoundTrip ==
    /\ \A id \in DOMAIN written :
           \A c \in DOMAIN written[id].checkpoint.channel_values :
               RoundTrips(written[id].checkpoint.channel_values[c])
    /\ \A k \in DOMAIN submitted :
           \A i \in 1..Len(submitted[k]) : RoundTrips(submitted[k][i][2])

\* C33: setActiveBranch with a branch id that is not the id of a branch of the thread
\* leaves the store unchanged: the thread's ACTIVE_BRANCH edge still points to the
\* same branch afterwards.
C33_ForeignBranchChangesNothing ==
    [][\A k \in ThreadKeys, b \in BranchIds :
          (/\ RunSetActiveBranch(k, b)
           /\ ~\E x \in ThreadBranches(db, k) : x.branch_id = b) =>
             /\ db' = db
             /\ ActiveEdges(db', k) = ActiveEdges(db, k)
      ]_vars

\* C34: in every reachable state the branch pointers are well formed: every
\* ACTIVE_BRANCH edge goes from a stored thread to a Branch that this thread
\* HAS_BRANCH, every HEAD edge goes from a stored Branch to a stored Checkpoint, and
\* no other edge has an end at a node that deleteThread or deleteBranch removed.
C34_BranchPointersWellFormed ==
    /\ \A e \in DOMAIN db.active :
           /\ e[1] \in db.threads
           /\ \E b \in ThreadBranches(db, e[1]) : b.branch_id = e[2]
    /\ \A e \in DOMAIN db.head :
           /\ BranchIdTaken(db, e[1])
           /\ CheckpointIdTaken(db, e[2])
    /\ \A b \in db.branches : b.thread \in db.threads
    /\ \A c \in db.checkpoints : c.thread \in db.threads
    /\ \A e \in db.onBranch : CheckpointIdTaken(db, e[1]) /\ BranchIdTaken(db, e[2])
    /\ \A e \in db.previous : CheckpointIdTaken(db, e[1]) /\ CheckpointIdTaken(db, e[2])
    /\ \A e \in DOMAIN db.hasChannel :
           CheckpointIdTaken(db, e[1]) /\ e[2] \in db.channelStates
    /\ \A w \in DOMAIN db.writes : CheckpointIdTaken(db, w.checkpoint_id)

\* the only stored thread has a main branch with the second id of the pool and no
\* Branch has the first: the thread that had the first was stored when this main
\* branch was made and deleteThread removed it since, with its branch and edges; the
\* stored thread's checkpoint was put with a parent id that is not stored and has
\* no PREVIOUS edge, and its active branch has its HEAD
C34_Witness ==
    \E id \in DOMAIN written :
        LET key == KeyOf(written[id].config)
        IN  /\ db.threads = {key}
            /\ \E b \in ThreadBranches(db, key) : b.branch_id = UuidPool[2] /\ b.name = "main"
            /\ ~BranchIdTaken(db, UuidPool[1])
            /\ written[id].config.checkpoint_id # NoId
            /\ ~CheckpointIdTaken(db, written[id].config.checkpoint_id)
            /\ Parents(db, id) = {}
            /\ ActiveHeads(db, key) = {id}

\* C35: deleteThread(T1) changes nothing another thread id can observe: for every
\* thread T2 with another thread id, getTuple (by id and latest, with parentConfig,
\* channel values and pending writes), list and the branches of T2 are the same
\* before and after, and the ChannelStates a checkpoint of T2 references are kept.
C35_DeleteThreadFrame ==
    \A t1 \in ThreadIds : \A t2 \in ThreadIds \ {t1} :
        LET d2 == deleteThread(db, t1)
        IN  /\ \A ns \in Namespaces, id \in {NoId} \cup CheckpointIds :
                  getTuple(d2, Config(t2, ns, id)) = getTuple(db, Config(t2, ns, id))
            /\ \A ns \in Namespaces, limit \in ListLimits :
                  list(d2, Config(t2, ns, NoId), <<>>, limit)
                      = list(db, Config(t2, ns, NoId), <<>>, limit)
            /\ \A ns \in Namespaces :
                  ListBranches(d2, Key(t2, ns)) = ListBranches(db, Key(t2, ns))
            /\ \A id \in ThreadIdCheckpoints(db, t2) :
                  /\ id \in ThreadIdCheckpoints(d2, t2)
                  /\ \A e \in DOMAIN db.hasChannel :
                        e[1] = id => e[2] \in d2.channelStates /\ e \in DOMAIN d2.hasChannel

\* the pending writes getTuple can return for a config
PendingOf(d, config) ==
    {r.pendingWrites : r \in {x \in getTuple(d, config) : x.status = "found"}}

\* C36: putWrites is idempotent on replay: a second putWrites call with the same
\* checkpoint, task id and writes as the first leaves getTuple returning the same
\* pending writes as after the first call, without duplicated entries.
C36_PutWritesReplayIdempotent ==
    [][\A config \in WriteConfigs, w \in WriteInputs :
          LET k == <<config.checkpoint_id, w[1]>>
          IN  (/\ PutWrites(config, w[2], w[1])
               /\ k \in DOMAIN submitted
               /\ submitted[k] = w[2])
              => PendingOf(db', config) = PendingOf(db, config)
      ]_vars

\* a setup call has run its statements to the last and returned
SetupCompleted(calls) ==
    \E j \in DOMAIN calls :
        calls[j].op = "setup" /\ calls[j].result = "returned" /\ calls[j].opened = 1

\* a saver made by the constructor never calls driver.close(); close() on a saver
\* made by fromConnString calls it
DriverClosedOnlyIfOwned ==
    /\ saver'.ownsDriver = saver.ownsDriver
    /\ [saver' EXCEPT !.driverClosed = 0] = Neo4jSaver => saver'.driverClosed = 0
    /\ saver'.driverClosed # saver.driverClosed => (CloseSaver /\ saver.ownsDriver)
    /\ CloseSaver /\ saver.ownsDriver => saver'.driverClosed = saver.driverClosed + 1

\* only the last statement of a setup call, resolved, makes the saver set up
SetUpOnlyBySuccess ==
    \A i \in DOMAIN procs :
        (procs[i].op = "setup" /\ procs[i].pc = "run" /\ (Run(i) \/ StoreError(i))) =>
            /\ SetupCompleted(procs') /\ ~SetupCompleted(procs)
                  => Run(i) /\ procs[i].i = SetupStatements
            /\ StoreError(i) => procs'[i].result = "store"
            /\ IsSetup(procs') = SetupCompleted(procs')

\* a setup call that starts after one has completed issues nothing; one that starts
\* before any has completed, failed calls or not, opens a session for its statements
SetupStartsByIsSetup ==
    \A i \in DOMAIN procs :
        (procs[i].op = "setup" /\ Open(i)) =>
            IF SetupCompleted(procs)
            THEN /\ procs'[i].pc = "ended"
                 /\ procs'[i].opened = 0
                 /\ procs'[i].result = "returned"
            ELSE /\ procs'[i].pc = "run"
                 /\ procs'[i].session = "open"
                 /\ procs'[i].i = 1

\* C37 as stated: close() closes the driver only when the saver made it through
\* fromConnString, a saver constructed on a caller's driver never closes it, and
\* setup() issues the schema statements only until one setup call has completed
\* successfully; a failed setup leaves the saver not set up.
C37_SetupIssuesUntilCompleted ==
    [][/\ DriverClosedOnlyIfOwned
       /\ SetUpOnlyBySuccess
       /\ \A i \in DOMAIN procs :
             (procs[i].op = "setup" /\ Run(i)) => ~SetupCompleted(procs)
      ]_vars

\* C37, amended: close() closes the driver only when the saver made it through
\* fromConnString, a saver constructed on a caller's driver never closes it, and a
\* setup() call that starts after one setup call has completed successfully issues
\* no schema statement, while one that starts before (after failed calls, or while
\* another is still running) issues them; a failed setup leaves the saver not set up.
C37_DriverAndSetupLifecycle ==
    [][/\ DriverClosedOnlyIfOwned
       /\ SetUpOnlyBySuccess
       /\ SetupStartsByIsSetup
      ]_vars

\* a setup call failed, a later one ran the statements and completed, a third
\* returned without a session, and close() was called on a saver made by the
\* constructor, which made no driver.close()
C37_Witness ==
    /\ saver = Neo4jSaver
    /\ ops = 4
    /\ Len(procs) = 3
    /\ procs[1].result = "store" /\ procs[1].session = "closed"
    /\ procs[2].result = "returned" /\ procs[2].opened = 1
    /\ procs[3].result = "returned" /\ procs[3].opened = 0 /\ procs[3].pc = "ended"

====
